---------------------------- MODULE Spec2Model ----------------------------
(***************************************************************************)
(* A model of Hive, a retrieval engine with a regression-gated deploy.     *)
(*                                                                         *)
(* Text is modelled character by character: a string is a sequence of      *)
(* one-character strings, a document is the sequence of its lines          *)
(* (text.split("\n")), a token or a chunk id is a sequence of characters.  *)
(* Real numbers are modelled exactly: scores as integers or as fractions   *)
(* compared by cross-multiplication, nUDCG values in units of 1/10000      *)
(* (the evaluator rounds to four decimals).                                *)
(***************************************************************************)
EXTENDS Integers, Sequences, FiniteSets, TLC

VARIABLES
    chunks,           \* table chunks: chunk id -> row
    postings,         \* table postings: <<term, chunk id>> -> tf
    term_stats,       \* table term_stats: term -> df
    corpus_stats,     \* table corpus_stats: <<>> or <<the single row>>
    config_versions,  \* table config_versions: sequence of rows, row i has id i
    eval_results,     \* table eval_results: sequence of rows in insertion order
    active,           \* workspace/configs/active.json: what the symlink holds
    now,              \* the clock CURRENT_TIMESTAMP reads, in whole seconds
    pc,               \* where the running command stands ("idle": none runs)
    frame,            \* the running deploy's local variables
    outcome,          \* what the last finished command reported
    call              \* a call of one of the pure functions: its input and result

vars == <<chunks, postings, term_stats, corpus_stats, config_versions,
          eval_results, active, now, pc, frame, outcome, call>>

storeVars == <<chunks, postings, term_stats, corpus_stats, config_versions,
               eval_results>>

sysVars == <<chunks, postings, term_stats, corpus_stats, config_versions,
             eval_results, active, now, pc, frame, outcome>>

---------------------------------------------------------------------------
(* Bounds of the model. *)

MaxLines == 3        \* lines of a generated document
MaxEvals == 3        \* evaluate_config calls whose rows the log holds
MaxVersions == 2     \* rows of config_versions
MaxClock == 1        \* seconds the clock advances
MaxResults == 4      \* items of a result list given to apply_dynamic_k
MaxScore == 2        \* largest score of such an item
MaxRanked == 3       \* items of a ranked list given to rrf_fuse
MaxRetrieved == 3    \* results given to compute_udcg
MaxLeaf == 2         \* leaf values of a generated configuration document
MaxText == 4         \* characters of a text given to tokenize

---------------------------------------------------------------------------
(* Sequences and characters. *)

Range(s) == {s[i] : i \in 1..Len(s)}

Min(a, b) == IF a <= b THEN a ELSE b

Max(a, b) == IF a >= b THEN a ELSE b

RECURSIVE Concat(_)
Concat(ss) ==
    IF ss = <<>> THEN <<>> ELSE Head(ss) \o Concat(Tail(ss))

RECURSIVE SeqsUpTo(_, _)
SeqsUpTo(S, n) ==
    IF n = 0 THEN {<<>>}
    ELSE LET shorter == SeqsUpTo(S, n - 1)
         IN  shorter \cup {Append(s, x) : s \in {t \in shorter : Len(t) = n - 1}, x \in S}

UpperChars ==
    <<"A","B","C","D","E","F","G","H","I","J","K","L","M",
      "N","O","P","Q","R","S","T","U","V","W","X","Y","Z">>

LowerChars ==
    <<"a","b","c","d","e","f","g","h","i","j","k","l","m",
      "n","o","p","q","r","s","t","u","v","w","x","y","z">>

DigitChars == {"0","1","2","3","4","5","6","7","8","9"}

UpperSet == Range(UpperChars)

\* the character class [a-z0-9]
AlnumChars == Range(LowerChars) \cup DigitChars

\* str.lower() on one character
LowerChar(c) ==
    IF c \in UpperSet
    THEN LowerChars[CHOOSE i \in DOMAIN UpperChars : UpperChars[i] = c]
    ELSE c

\* str.lower()
Lower(s) == [i \in 1..Len(s) |-> LowerChar(s[i])]

IsAlnum(c) == c \in AlnumChars

\* the characters str.strip() and str.split() treat as whitespace
IsSpace(c) == c \in {" ", "\t", "\n", "\r"}

\* s.strip(chars): drop the leading and the trailing characters that are in cs
Strip(s, cs) ==
    LET keep == {i \in 1..Len(s) : s[i] \notin cs}
    IN  IF keep = {} THEN <<>>
        ELSE SubSeq(s, CHOOSE i \in keep : \A j \in keep : i <= j,
                       CHOOSE i \in keep : \A j \in keep : i >= j)

\* s.strip()
StripSpace(s) == Strip(s, {" ", "\t", "\n", "\r"})

\* s.startswith(p)
StartsWith(s, p) == Len(s) >= Len(p) /\ SubSeq(s, 1, Len(p)) = p

\* sep.join(parts)
RECURSIVE Join(_, _)
Join(parts, sep) ==
    IF parts = <<>> THEN <<>>
    ELSE IF Len(parts) = 1 THEN parts[1]
    ELSE parts[1] \o sep \o Join(Tail(parts), sep)

\* s.split(): the maximal runs of non-whitespace characters, in order
RECURSIVE SplitSpace(_, _, _)
SplitSpace(s, i, word) ==
    IF i > Len(s) THEN (IF word = <<>> THEN <<>> ELSE <<word>>)
    ELSE IF IsSpace(s[i])
         THEN (IF word = <<>> THEN <<>> ELSE <<word>>) \o SplitSpace(s, i + 1, <<>>)
         ELSE SplitSpace(s, i + 1, Append(word, s[i]))

\* s.split(sep) for a one-character separator: empty fields are kept
RECURSIVE SplitOn(_, _, _, _)
SplitOn(s, sep, i, field) ==
    IF i > Len(s) THEN <<field>>
    ELSE IF s[i] = sep
         THEN <<field>> \o SplitOn(s, sep, i + 1, <<>>)
         ELSE SplitOn(s, sep, i + 1, Append(field, s[i]))

---------------------------------------------------------------------------
(* core/text.py *)

STOP_WORDS == {
    <<"a">>, <<"a","n">>, <<"a","n","d">>, <<"a","r","e">>, <<"a","s">>, <<"a","t">>,
    <<"b","e">>, <<"b","u","t">>, <<"b","y">>, <<"f","o","r">>, <<"f","r","o","m">>,
    <<"h","a","s">>, <<"h","a","v","e">>, <<"h","e">>, <<"h","e","r">>, <<"h","i","s">>,
    <<"h","o","w">>, <<"i">>, <<"i","f">>, <<"i","n">>, <<"i","n","t","o">>, <<"i","s">>,
    <<"i","t">>, <<"i","t","s">>, <<"j","u","s","t">>, <<"m","e">>, <<"m","y">>, <<"n","o">>,
    <<"n","o","r">>, <<"n","o","t">>, <<"o","f">>, <<"o","n">>, <<"o","r">>, <<"o","u","r">>,
    <<"o","w","n">>, <<"s">>, <<"s","h","e">>, <<"s","o">>, <<"s","o","m","e">>,
    <<"s","u","c","h">>, <<"t","h","a","n">>, <<"t","h","a","t">>, <<"t","h","e">>,
    <<"t","h","e","i","r">>, <<"t","h","e","m">>, <<"t","h","e","n">>, <<"t","h","e","r","e">>,
    <<"t","h","e","s","e">>, <<"t","h","e","y">>, <<"t","h","i","s">>, <<"t","o">>,
    <<"t","o","o">>, <<"u","s">>, <<"v","e","r","y">>, <<"w","a","s">>, <<"w","e">>,
    <<"w","e","r","e">>, <<"w","h","a","t">>, <<"w","h","e","n">>, <<"w","h","e","r","e">>,
    <<"w","h","i","c","h">>, <<"w","h","i","l","e">>, <<"w","h","o">>, <<"w","h","o","m">>,
    <<"w","h","y">>, <<"w","i","l","l">>, <<"w","i","t","h">>, <<"w","o","u","l","d">>,
    <<"y","o","u">>, <<"y","o","u","r">> }

\* re.sub(r"[^a-z0-9]", " ", text.lower())
Cleaned(text) ==
    [i \in 1..Len(text) |->
        IF IsAlnum(LowerChar(text[i])) THEN LowerChar(text[i]) ELSE " "]

tokenize_filter_before_lower(text) ==
    LET raw == [i \in 1..Len(text) |->
                   IF IsAlnum(LowerChar(text[i])) THEN text[i] ELSE " "]
        words == SplitSpace(raw, 1, <<>>)
        kept == SelectSeq(words, LAMBDA t : t # <<>> /\ t \notin STOP_WORDS)
    IN  [i \in 1..Len(kept) |-> Lower(kept[i])]

\* tokenize(text): lowercase, punctuation to spaces, split, drop stop words
tokenize(text) ==
    LET words == SplitSpace(Cleaned(text), 1, <<>>)
    IN  SelectSeq(words, LAMBDA t : t # <<>> /\ t \notin STOP_WORDS)

---------------------------------------------------------------------------
(* core/indexer.py: chunking *)

\* re.sub(r"[^a-z0-9]+", "-", s): every maximal run of other characters
\* becomes one hyphen
RECURSIVE SubRuns(_, _)
SubRuns(s, i) ==
    IF i > Len(s) THEN <<>>
    ELSE IF IsAlnum(s[i]) THEN <<s[i]>> \o SubRuns(s, i + 1)
    ELSE IF i > 1 /\ ~IsAlnum(s[i - 1]) THEN SubRuns(s, i + 1)
    ELSE <<"-">> \o SubRuns(s, i + 1)

\* _slugify(heading)
slugify(heading) == Strip(SubRuns(Lower(heading), 1), {"-"})

\* Path(rel_path).parts
PathParts(rel_path) == SplitOn(rel_path, "/", 1, <<>>)

\* Path.stem: the last path component without its last suffix
PathStem(rel_path) ==
    LET name == PathParts(rel_path)[Len(PathParts(rel_path))]
        dots == {i \in 1..Len(name) : name[i] = "."}
        last == CHOOSE i \in dots : \A j \in dots : i >= j
    IN  IF dots # {} /\ 1 < last /\ last < Len(name)
        THEN SubSeq(name, 1, last - 1)
        ELSE name

HeadingPrefixWithoutSpace(heading_level) == [i \in 1..heading_level |-> "#"]

\* "#" * heading_level + " "
HeadingPrefix(heading_level) == [i \in 1..heading_level |-> "#"] \o <<" ">>

\* the loop of chunk_markdown over the lines: st holds sections,
\* current_heading and current_lines
RECURSIVE SectionLoop(_, _, _, _)
SectionLoop(lines, i, prefix, st) ==
    IF i > Len(lines) THEN st
    ELSE LET line == lines[i]
         IN  IF StartsWith(line, prefix)
             THEN SectionLoop(lines, i + 1, prefix,
                    [sections |->
                        IF st.current_lines # <<>>
                        THEN Append(st.sections,
                                    [heading |-> st.current_heading,
                                     lines |-> st.current_lines])
                        ELSE st.sections,
                     current_heading |->
                        StripSpace(SubSeq(line, Len(prefix) + 1, Len(line))),
                     current_lines |-> <<line>>])
             ELSE SectionLoop(lines, i + 1, prefix,
                    [st EXCEPT !.current_lines = Append(@, line)])

\* the sections chunk_markdown collects, the trailing one and the
\* no-section fallback included
Sections(lines, title, heading_level) ==
    LET st == SectionLoop(lines, 1, HeadingPrefix(heading_level),
                 [sections |-> <<>>, current_heading |-> title,
                  current_lines |-> <<>>])
        all == IF st.current_lines # <<>>
               THEN Append(st.sections,
                           [heading |-> st.current_heading,
                            lines |-> st.current_lines])
               ELSE st.sections
    IN  IF all = <<>> THEN <<[heading |-> title, lines |-> lines]>> ELSE all

\* the chunk of one section
SectionChunk(rel_path, section) ==
    [id |-> rel_path \o <<"#">> \o slugify(section.heading),
     doc_id |-> rel_path,
     text |-> StripSpace(Join(section.lines, <<"\n">>)),
     metadata |-> [category |-> PathParts(rel_path)[1],
                   title |-> PathStem(rel_path)],
     heading |-> section.heading]

\* chunk_markdown(doc_path, documents_dir, heading_level): doc is the file,
\* its path relative to documents_dir and its lines
chunk_markdown(doc, heading_level) ==
    LET sections == Sections(doc.lines, PathStem(doc.rel_path), heading_level)
        produced == [i \in 1..Len(sections) |-> SectionChunk(doc.rel_path, sections[i])]
    IN  SelectSeq(produced, LAMBDA c : c.text # <<>>)


---------------------------------------------------------------------------
(* core/store.py: the tables *)

\* a table with no row (a fresh database, or after DELETE FROM)
EmptyTable == [k \in {} |-> <<>>]

\* INSERT OR REPLACE of one row under its primary key
InsertOrReplace(table, key, row) ==
    [k \in DOMAIN table \cup {key} |-> IF k = key THEN row ELSE table[k]]

\* executemany("INSERT OR REPLACE INTO chunks ..."): the rows in order
RECURSIVE insert_chunks(_, _)
insert_chunks(table, rows) ==
    IF rows = <<>> THEN table
    ELSE insert_chunks(InsertOrReplace(table, Head(rows).id, Head(rows)), Tail(rows))

\* executemany("INSERT OR REPLACE INTO postings ..."): key (term, chunk_id)
RECURSIVE insert_postings(_, _)
insert_postings(table, ps) ==
    IF ps = <<>> THEN table
    ELSE insert_postings(
             InsertOrReplace(table, <<Head(ps)[1], Head(ps)[2]>>, Head(ps)[3]),
             Tail(ps))

\* executemany("INSERT OR REPLACE INTO term_stats ..."): key term
RECURSIVE insert_term_stats(_, _)
insert_term_stats(table, stats) ==
    IF stats = <<>> THEN table
    ELSE insert_term_stats(
             InsertOrReplace(table, Head(stats)[1], Head(stats)[2]), Tail(stats))

\* upsert_corpus_stats: the single row with id 1 is replaced; the average
\* is the fraction avg_num / avg_den
upsert_corpus_stats(total_chunks, avg_chunk_length) ==
    <<[total_chunks |-> total_chunks,
       avg_num |-> avg_chunk_length[1], avg_den |-> avg_chunk_length[2]]>>

\* get_corpus_stats: (0, 0.0) when the table has no row
get_corpus_stats(table) ==
    IF table = <<>> THEN [total_chunks |-> 0, avg_num |-> 0, avg_den |-> 1]
    ELSE table[1]

---------------------------------------------------------------------------
(* core/indexer.py: postings and the index run *)

\* the distinct elements of s in order of first occurrence (Counter's order)
RECURSIVE Distinct(_, _)
Distinct(s, seen) ==
    IF s = <<>> THEN <<>>
    ELSE IF Head(s) \in seen THEN Distinct(Tail(s), seen)
    ELSE <<Head(s)>> \o Distinct(Tail(s), seen \cup {Head(s)})

\* Counter(tokens)[t]
Count(t, tokens) == Cardinality({i \in DOMAIN tokens : tokens[i] = t})

RECURSIVE SumLen(_)
SumLen(ss) ==
    IF ss = <<>> THEN 0 ELSE Len(Head(ss)) + SumLen(Tail(ss))

\* build_postings(chunks)
build_postings(cs) ==
    LET toks == [i \in 1..Len(cs) |-> tokenize(cs[i].text)]
        perChunk == [i \in 1..Len(cs) |->
                        LET terms == Distinct(toks[i], {})
                        IN  [j \in 1..Len(terms) |->
                                <<terms[j], cs[i].id, Count(terms[j], toks[i])>>]]
        allTerms == Distinct(Concat(toks), {})
        total_tokens == SumLen(toks)
        total_chunks == Len(cs)
    IN  [postings |-> Concat(perChunk),
         term_stats |-> [j \in 1..Len(allTerms) |->
                            <<allTerms[j],
                              Cardinality({i \in 1..Len(cs) :
                                              allTerms[j] \in Range(toks[i])})>>],
         corpus_stats |-> <<total_chunks,
                            IF total_chunks # 0 THEN <<total_tokens, total_chunks>>
                            ELSE <<0, 1>>>>]

\* the stored embedding of a row indexed without embeddings (NULL)
NoEmbedding == <<>>

\* generate_embeddings: the remote model, one vector per text in order;
\* a fixed function of the text stands for the provider
Provider(text) == <<Len(tokenize(text)), Len(text)>>

generate_embeddings(texts) == [i \in 1..Len(texts) |-> Provider(texts[i])]

\* the chunks of every file of the collection, files in sorted order
AllChunks(col) ==
    Concat([d \in 1..Len(col.docs) |-> chunk_markdown(col.docs[d], col.heading_level)])

\* the rows index_collection prepares for the chunks table
ChunkRows(all_chunks, no_embeddings) ==
    LET embeddings_array ==
            generate_embeddings([i \in 1..Len(all_chunks) |-> all_chunks[i].text])
    IN  [i \in 1..Len(all_chunks) |->
            [id |-> all_chunks[i].id,
             doc_id |-> all_chunks[i].doc_id,
             text |-> all_chunks[i].text,
             metadata_json |-> all_chunks[i].metadata,
             embedding |-> IF no_embeddings THEN NoEmbedding ELSE embeddings_array[i],
             char_length |-> Len(tokenize(all_chunks[i].text))]]

---------------------------------------------------------------------------
(* The inputs of the model: lines, documents, collections. *)

LineHeadA == <<"#","#"," ","A">>          \* "## A"
LineHeadA2 == <<"#","#"," ","a","!">>     \* "## a!"
LineHeadB == <<"#","#"," ","B">>          \* "## B"
LineTopA == <<"#"," ","A">>               \* "# A"
LineX == <<"x">>
LineXY == <<"x"," ","y">>
LineXZ == <<"x"," ","z">>
LineY == <<"y">>
LineZ == <<"z">>
LineThe == <<"t","h","e">>
LineBlank == <<>>

PathGA == <<"g","/","a",".","m","d">>     \* g/a.md
PathHB == <<"h","/","b",".","m","d">>     \* h/b.md

\* no markdown file under documents_dir
CorpusEmpty == [docs |-> <<>>, heading_level |-> 2]

\* two files in two categories, three chunks, the term x in all of them
CorpusA ==
    [docs |-> <<[rel_path |-> PathGA,
                 lines |-> <<LineHeadA, LineXY, LineHeadB, LineX>>],
                [rel_path |-> PathHB, lines |-> <<LineXZ>>]>>,
     heading_level |-> 2]

\* the corpus after an edit: one file, one chunk, other terms
CorpusB ==
    [docs |-> <<[rel_path |-> PathGA, lines |-> <<LineHeadA, LineZ>>]>>,
     heading_level |-> 2]

\* one file whose two headings slugify alike
CorpusDup ==
    [docs |-> <<[rel_path |-> PathGA,
                 lines |-> <<LineHeadA, LineX, LineHeadA2, LineY>>]>>,
     heading_level |-> 2]

\* one file whose only chunk holds stop words only
CorpusStop ==
    [docs |-> <<[rel_path |-> PathHB, lines |-> <<LineThe>>]>>,
     heading_level |-> 2]

\* one file with no text: a markdown file, but no chunk
CorpusBlank ==
    [docs |-> <<[rel_path |-> PathHB, lines |-> <<LineBlank>>]>>,
     heading_level |-> 2]

Corpora == {CorpusEmpty, CorpusA, CorpusB, CorpusDup, CorpusStop, CorpusBlank}

\* the documents the chunker is called on
LineOptions == {LineHeadA, LineHeadA2, LineHeadB, LineTopA, LineX, LineBlank}

\* doc.md with the sections Setup and Usage
DocSetupUsage ==
    [rel_path |-> <<"d","o","c",".","m","d">>,
     lines |-> << <<"#","#"," ","S","e","t","u","p">>, LineX,
                  <<"#","#"," ","U","s","a","g","e">>, LineY >>]

GenDocs ==
    {[rel_path |-> PathGA, lines |-> ls] :
        ls \in SeqsUpTo(LineOptions, MaxLines) \ {<<>>}}
    \cup {DocSetupUsage}

HeadingLevels == {1, 2}

---------------------------------------------------------------------------
(* core/indexer.py: the index run *)

\* what index_collection computes from the collection on disk before it
\* writes: the chunks, the postings and statistics, the rows
IndexPlan(col) ==
    LET all_chunks == AllChunks(col)
    IN  [all_chunks |-> all_chunks,
         built |-> build_postings(all_chunks),
         rows |-> [no_embeddings \in BOOLEAN |-> ChunkRows(all_chunks, no_embeddings)]]

\* the plans of the model's collections, computed once
IndexPlanOf == [col \in Corpora |-> IndexPlan(col)]

\* index_collection(collection_path, store, force, no_embeddings) on the
\* collection col found on disk; a run that completes
index_collection(col, force, no_embeddings) ==
    LET cleared == [chunks |-> IF force THEN EmptyTable ELSE chunks,
                    postings |-> IF force THEN EmptyTable ELSE postings,
                    term_stats |-> IF force THEN EmptyTable ELSE term_stats]
        plan == IndexPlanOf[col]
        all_chunks == plan.all_chunks
        built == plan.built
    IN  /\ pc = "idle"
        /\ IF col.docs = <<>>
           THEN /\ chunks' = cleared.chunks
                /\ postings' = cleared.postings
                /\ term_stats' = cleared.term_stats
                /\ corpus_stats' = corpus_stats
                /\ outcome' = [cmd |-> "index", exit |-> 0,
                               info |-> [force |-> force, documents |-> 0,
                                         chunks |-> 0, terms |-> 0]]
           ELSE /\ chunks' = insert_chunks(cleared.chunks, plan.rows[no_embeddings])
                /\ postings' = insert_postings(cleared.postings, built.postings)
                /\ term_stats' = insert_term_stats(cleared.term_stats, built.term_stats)
                /\ corpus_stats' = upsert_corpus_stats(built.corpus_stats[1],
                                                       built.corpus_stats[2])
                /\ outcome' = [cmd |-> "index", exit |-> 0,
                               info |-> [force |-> force,
                                         documents |-> Len(col.docs),
                                         chunks |-> Len(all_chunks),
                                         terms |-> Len(built.term_stats)]]
        /\ UNCHANGED <<config_versions, eval_results, active, now, pc, frame, call>>


---------------------------------------------------------------------------
(* core/searcher.py: rrf_fuse and apply_dynamic_k *)

\* a fraction num / den with den > 0; fractions are compared by
\* cross-multiplication
FracLeq(a, b) == a.num * b.den <= b.num * a.den

FracEq(a, b) == a.num * b.den = b.num * a.den

RrfScoreZeroBased(rrf_k, br, vr) ==
    [num |-> (rrf_k + vr - 1) + (rrf_k + br - 1),
     den |-> (rrf_k + br - 1) * (rrf_k + vr - 1)]

\* score = 1.0 / (rrf_k + br) + 1.0 / (rrf_k + vr)
RrfScore(rrf_k, br, vr) ==
    [num |-> (rrf_k + vr) + (rrf_k + br), den |-> (rrf_k + br) * (rrf_k + vr)]

\* {cid: rank + 1 for rank, (cid, _) in enumerate(results)}: a later entry
\* of the same id replaces an earlier one
RankMap(results) ==
    [cid \in {results[i][1] : i \in 1..Len(results)} |->
        CHOOSE r \in 1..Len(results) :
            /\ results[r][1] = cid
            /\ \A q \in 1..Len(results) : results[q][1] = cid => q <= r]

\* dict.get(cid, fallback)
GetOr(map, cid, fallback) == IF cid \in DOMAIN map THEN map[cid] ELSE fallback

\* sorted(fused, key=lambda x: x[1], reverse=True): a stable sort, entries
\* of equal score keep the order they had
RECURSIVE InsertByScore(_, _)
InsertByScore(sorted, x) ==
    IF sorted = <<>> THEN <<x>>
    ELSE IF FracLeq(x.score, Head(sorted).score)
         THEN <<Head(sorted)>> \o InsertByScore(Tail(sorted), x)
         ELSE <<x>> \o sorted

RECURSIVE SortedByScore(_, _)
SortedByScore(fused, sorted) ==
    IF fused = <<>> THEN sorted
    ELSE SortedByScore(Tail(fused), InsertByScore(sorted, Head(fused)))

\* the orders in which a set may be iterated
IterationOrders(S) ==
    {order \in [1..Cardinality(S) -> S] :
        \A i, j \in 1..Cardinality(S) : i # j => order[i] # order[j]}

\* rrf_fuse(bm25_results, vector_results, rrf_k); all_ids is the order in
\* which the loop iterates over the set of ids
rrf_fuse(bm25_results, vector_results, rrf_k, all_ids) ==
    LET bm25_rank_map == RankMap(bm25_results)
        vector_rank_map == RankMap(vector_results)
        fallback_bm25 == Len(bm25_results) + 1
        fallback_vector == Len(vector_results) + 1
        fused == [i \in 1..Len(all_ids) |->
                    LET cid == all_ids[i]
                        br == GetOr(bm25_rank_map, cid, fallback_bm25)
                        vr == GetOr(vector_rank_map, cid, fallback_vector)
                    IN  [cid |-> cid, score |-> RrfScore(rrf_k, br, vr),
                         bm25_rank |-> br, vector_rank |-> vr]]
    IN  SortedByScore(fused, <<>>)

SliceWhole(results, n) == results

\* results[:n]
Slice(results, n) ==
    IF n >= 0 THEN SubSeq(results, 1, Min(n, Len(results)))
    ELSE SubSeq(results, 1, Max(Len(results) + n, 0))

RECURSIVE DynKLoopNotStrict(_, _, _, _, _, _)
DynKLoopNotStrict(results, factor, min_results, i, gap_sum, gap_count) ==
    IF i >= Len(results) THEN results
    ELSE LET gap == results[i][2] - results[i + 1][2]
             sum == gap_sum + gap
             count == gap_count + 1
         IN  IF /\ i >= min_results
                /\ sum > 0
                /\ gap * factor.den * count >= factor.num * sum
             THEN SubSeq(results, 1, i)
             ELSE DynKLoopNotStrict(results, factor, min_results, i + 1, sum, count)

\* the loop of apply_dynamic_k from index i on (range(1, len(results)));
\* the gap at i lies between the i-th and the (i+1)-th item; the factor is
\* a fraction, running_mean = gap_sum / gap_count
RECURSIVE DynKLoop(_, _, _, _, _, _)
DynKLoop(results, factor, min_results, i, gap_sum, gap_count) ==
    IF i >= Len(results) THEN results
    ELSE LET gap == results[i][2] - results[i + 1][2]
             sum == gap_sum + gap
             count == gap_count + 1
         IN  IF /\ i >= min_results
                /\ sum > 0
                /\ gap * factor.den * count > factor.num * sum
             THEN SubSeq(results, 1, i)
             ELSE DynKLoop(results, factor, min_results, i + 1, sum, count)

DynKScanCountFromOne(results, factor, min_results) ==
    IF Len(results) <= min_results THEN results
    ELSE DynKLoop(results, factor, min_results, 1, 0, 1)

\* lines 181-202, on the capped list
DynKScan(results, factor, min_results) ==
    IF Len(results) <= min_results THEN results
    ELSE DynKLoop(results, factor, min_results, 1, 0, 0)

apply_dynamic_k_uncapped(results, gap_threshold_factor, min_results, max_results) ==
    DynKScan(results, gap_threshold_factor, min_results)

\* apply_dynamic_k(results, gap_threshold_factor, min_results, max_results)
apply_dynamic_k(results, gap_threshold_factor, min_results, max_results) ==
    DynKScan(Slice(results, max_results), gap_threshold_factor, min_results)

---------------------------------------------------------------------------
(* Initial states. *)

NoLink == "none"        \* active.json does not exist
NoFrame == <<>>         \* no deploy is running
NoOutcome == [cmd |-> "none", exit |-> 0, info |-> <<>>]
NoCall == [fn |-> "none", arg |-> <<>>, done |-> FALSE, ret |-> <<>>]

\* a fresh database and workspace
SysInit ==
    /\ chunks = EmptyTable
    /\ postings = EmptyTable
    /\ term_stats = EmptyTable
    /\ corpus_stats = <<>>
    /\ config_versions = <<>>
    /\ eval_results = <<>>
    /\ active = NoLink
    /\ now = 0
    /\ pc = "idle"
    /\ frame = NoFrame
    /\ outcome = NoOutcome

---------------------------------------------------------------------------
(* Configurations, the gold set and the evaluator's result. *)

ActivePath == "workspace/configs/active.json"

\* the configuration files on disk, by path
ConfigFiles ==
    [p \in {"lo.json", "hi.json"} |->
        IF p = "lo.json" THEN [name |-> "lo", version |-> "1.0"]
        ELSE [name |-> "hi", version |-> "1.0"]]

\* the paths a command may be given
ConfigPaths == DOMAIN ConfigFiles \cup {ActivePath}

\* the queries of the gold set, in file order
GoldQueries == <<"q1", "q2", "q3">>

\* the nudcg compute_udcg returns for the results of search(query, config),
\* in units of 1/10000 (round(nudcg, 4)); an input of the model
QueryNudcg ==
    [name \in {"lo", "hi"} |->
        IF name = "lo" THEN <<3500, 3500, 3500>> ELSE <<4000, 4000, 4001>>]

\* os.path.exists(path): a symlink is followed, and a symlink that points
\* to itself or to nothing does not exist
Exists(path, link) ==
    IF path = ActivePath THEN link \in DOMAIN ConfigFiles
    ELSE path \in DOMAIN ConfigFiles

\* json.loads(Path(path).read_text()), for a path that exists
ReadConfig(path, link) ==
    IF path = ActivePath THEN ConfigFiles[link] ELSE ConfigFiles[path]

\* Path(path).resolve(): symlinks followed; a path that does not exist
\* resolves to itself
Resolve(path, link) ==
    IF path = ActivePath /\ link \in DOMAIN ConfigFiles THEN link ELSE path

RECURSIVE SumSeq(_)
SumSeq(xs) ==
    IF xs = <<>> THEN 0 ELSE Head(xs) + SumSeq(Tail(xs))

\* round(total / n, 4) in units of 1/10000: the nearest integer to total / n
RoundedMean(total, n) == (2 * total + n) \div (2 * n)

---------------------------------------------------------------------------
(* core/store.py: eval_results and config_versions *)

insert_eval_result_replacing(table, config_name, query, metrics_json, clock) ==
    <<[id |-> 1, config_name |-> config_name, query |-> query,
       metrics_json |-> metrics_json, created_at |-> clock]>>

\* insert_eval_result: one more row, AUTOINCREMENT id, created_at the clock
insert_eval_result(table, config_name, query, metrics_json, clock) ==
    Append(table, [id |-> Len(table) + 1, config_name |-> config_name,
                   query |-> query, metrics_json |-> metrics_json,
                   created_at |-> clock])

\* insert_config_version: one more row, deployed_at NULL; lastrowid is its id
insert_config_version(table, name, version, config_json, clock) ==
    Append(table, [id |-> Len(table) + 1, name |-> name, version |-> version,
                   config_json |-> config_json, created_at |-> clock,
                   deployed_at |-> <<>>])

\* mark_deployed: deployed_at = CURRENT_TIMESTAMP on the row with that id
mark_deployed(table, config_id, clock) ==
    [i \in 1..Len(table) |->
        IF table[i].id = config_id
        THEN [table[i] EXCEPT !.deployed_at = <<clock>>]
        ELSE table[i]]

\* get_active_config: SELECT ... WHERE deployed_at IS NOT NULL ORDER BY
\* deployed_at DESC LIMIT 1. Among rows with the same deployed_at SQLite
\* returns the one it scans first, the row with the lowest id.
get_active_config(table) ==
    LET deployed == {i \in 1..Len(table) : table[i].deployed_at # <<>>}
        latest == {i \in deployed :
                      \A j \in deployed :
                          table[j].deployed_at[1] <= table[i].deployed_at[1]}
    IN  IF deployed = {} THEN <<>>
        ELSE <<table[CHOOSE i \in latest : \A j \in latest : i <= j]>>

---------------------------------------------------------------------------
(* core/evaluator.py: evaluate_config *)

\* the loop of evaluate_config from gold query i on: one row per query
RECURSIVE EvalLoop(_, _, _, _)
EvalLoop(table, config, i, clock) ==
    IF i > Len(GoldQueries) THEN table
    ELSE EvalLoop(insert_eval_result(table, config.name, GoldQueries[i],
                                     [query |-> GoldQueries[i],
                                      nudcg |-> QueryNudcg[config.name][i]],
                                     clock),
                  config, i + 1, clock)

\* evaluate_config(config_path, golden_path, store): the log afterwards and
\* the aggregate nudcg it returns
evaluate_config(table, config, clock) ==
    LET n == Len(GoldQueries)
    IN  [eval_results |-> EvalLoop(table, config, 1, clock),
         nudcg |-> IF n # 0 THEN RoundedMean(SumSeq(QueryNudcg[config.name]), n)
                   ELSE 0]

\* the log has room for k more evaluate_config calls
LogRoom(k) == Len(eval_results) + k * Len(GoldQueries) <= MaxEvals * Len(GoldQueries)

---------------------------------------------------------------------------
(* hive.py: the commands evaluate, compare and deploy *)

\* hive evaluate <config>
evaluate(path) ==
    /\ pc = "idle"
    /\ LogRoom(1)
    /\ IF Exists(path, active)
       THEN /\ eval_results' =
                  evaluate_config(eval_results, ReadConfig(path, active), now).eval_results
            /\ outcome' = [cmd |-> "evaluate", exit |-> 0, info |-> <<path>>]
       ELSE /\ eval_results' = eval_results
            /\ outcome' = [cmd |-> "evaluate", exit |-> 1, info |-> <<path>>]
    /\ UNCHANGED <<chunks, postings, term_stats, corpus_stats, config_versions,
                   active, now, pc, frame, call>>

\* hive compare <config_a> <config_b>: config_a is evaluated, then config_b
compare(path_a, path_b) ==
    /\ pc = "idle"
    /\ LogRoom(2)
    /\ IF ~Exists(path_a, active)
       THEN /\ eval_results' = eval_results
            /\ outcome' = [cmd |-> "compare", exit |-> 1, info |-> <<path_a, path_b>>]
       ELSE LET eval_a == evaluate_config(eval_results,
                                          ReadConfig(path_a, active), now)
            IN  IF ~Exists(path_b, active)
                THEN /\ eval_results' = eval_a.eval_results
                     /\ outcome' = [cmd |-> "compare", exit |-> 1,
                                    info |-> <<path_a, path_b>>]
                ELSE /\ eval_results' =
                            evaluate_config(eval_a.eval_results,
                                            ReadConfig(path_b, active), now).eval_results
                     /\ outcome' = [cmd |-> "compare", exit |-> 0,
                                    info |-> <<path_a, path_b>>]
    /\ UNCHANGED <<chunks, postings, term_stats, corpus_stats, config_versions,
                   active, now, pc, frame, call>>

GateBlocksSwapped(candidate_nudcg, active_nudcg) == active_nudcg < candidate_nudcg

\* if candidate_nudcg < active_nudcg: the deploy is blocked
GateBlocks(candidate_nudcg, active_nudcg) == candidate_nudcg < active_nudcg

\* hive deploy <config>, lines 289-299: the candidate is evaluated
DeployStart(path) ==
    /\ pc = "idle"
    /\ LogRoom(IF Exists(ActivePath, active) THEN 2 ELSE 1)
    /\ Len(config_versions) < MaxVersions
    /\ IF Exists(path, active)
       THEN LET ev == evaluate_config(eval_results, ReadConfig(path, active), now)
            IN  /\ eval_results' = ev.eval_results
                /\ frame' = [config_path |-> path,
                             candidate_nudcg |-> ev.nudcg,
                             candidate_config |-> ReadConfig(path, active),
                             active_nudcg |-> <<>>,
                             config_id |-> 0]
                /\ pc' = "check"
                /\ outcome' = outcome
       ELSE /\ outcome' = [cmd |-> "deploy", exit |-> 1,
                           info |-> [blocked |-> FALSE, config_path |-> path]]
            /\ UNCHANGED <<eval_results, frame, pc>>
    /\ UNCHANGED <<chunks, postings, term_stats, corpus_stats, config_versions,
                   active, now, call>>

\* lines 301-324: when active.json exists the active configuration is
\* evaluated and a candidate that scores lower is refused with exit code 1
DeployCheck ==
    /\ pc = "check"
    /\ IF Exists(ActivePath, active)
       THEN LET ev == evaluate_config(eval_results,
                                      ReadConfig(ActivePath, active), now)
            IN  /\ eval_results' = ev.eval_results
                /\ IF GateBlocks(frame.candidate_nudcg, ev.nudcg)
                   THEN /\ pc' = "idle"
                        /\ frame' = NoFrame
                        /\ outcome' = [cmd |-> "deploy", exit |-> 1,
                                       info |-> [blocked |-> TRUE,
                                                 config_path |-> frame.config_path]]
                   ELSE /\ pc' = "unlink"
                        /\ frame' = [frame EXCEPT !.active_nudcg = <<ev.nudcg>>]
                        /\ outcome' = outcome
       ELSE /\ pc' = "unlink"
            /\ UNCHANGED <<eval_results, frame, outcome>>
    /\ UNCHANGED <<chunks, postings, term_stats, corpus_stats, config_versions,
                   active, now, call>>

\* lines 327-329: if active.is_symlink() or active.exists(): active.unlink()
DeployUnlink ==
    /\ pc = "unlink"
    /\ active' = NoLink
    /\ pc' = "symlink"
    /\ UNCHANGED <<storeVars, now, frame, outcome, call>>

\* lines 331-332: active.symlink_to(Path(config_path).resolve())
DeploySymlink ==
    /\ pc = "symlink"
    /\ active' = Resolve(frame.config_path, active)
    /\ pc' = "insert"
    /\ UNCHANGED <<storeVars, now, frame, outcome, call>>

\* lines 335-339: store.insert_config_version(...)
DeployInsert ==
    /\ pc = "insert"
    /\ config_versions' =
          insert_config_version(config_versions, frame.candidate_config.name,
                                frame.candidate_config.version,
                                frame.candidate_config, now)
    /\ frame' = [frame EXCEPT !.config_id = Len(config_versions')]
    /\ pc' = "mark"
    /\ UNCHANGED <<chunks, postings, term_stats, corpus_stats, eval_results,
                   active, now, outcome, call>>

\* lines 340-360: store.mark_deployed(config_id), the summary, exit code 0
DeployMark ==
    /\ pc = "mark"
    /\ config_versions' = mark_deployed(config_versions, frame.config_id, now)
    /\ pc' = "idle"
    /\ frame' = NoFrame
    /\ outcome' = [cmd |-> "deploy", exit |-> 0,
                   info |-> [blocked |-> FALSE, config_path |-> frame.config_path]]
    /\ UNCHANGED <<chunks, postings, term_stats, corpus_stats, eval_results,
                   active, now, call>>

\* a deploy that fails part-way: the process is killed, or a step raises,
\* between two of its steps; what it has written so far stays
DeployAbort ==
    /\ pc # "idle"
    /\ pc' = "idle"
    /\ frame' = NoFrame
    /\ outcome' = [cmd |-> "deploy", exit |-> 2,
                   info |-> [blocked |-> FALSE, config_path |-> frame.config_path]]
    /\ UNCHANGED <<storeVars, active, now, call>>

\* a second passes on the clock CURRENT_TIMESTAMP reads
Tick ==
    /\ now < MaxClock
    /\ now' = now + 1
    /\ UNCHANGED <<storeVars, active, pc, frame, outcome, call>>

---------------------------------------------------------------------------
(* The system: Spec. One command runs at a time. *)

\* the collections an index run of the system finds on disk
SysCorpora == {CorpusEmpty, CorpusB}

Init == SysInit /\ call = NoCall

Index ==
    \E col \in SysCorpora, force \in BOOLEAN :
        index_collection(col, force, TRUE)

Evaluate == \E path \in ConfigPaths : evaluate(path)

Compare == \E path_a, path_b \in ConfigPaths : compare(path_a, path_b)

Deploy ==
    \/ \E path \in ConfigPaths : DeployStart(path)
    \/ DeployCheck
    \/ DeployUnlink
    \/ DeploySymlink
    \/ DeployInsert
    \/ DeployMark

Next ==
    \/ Index
    \/ Evaluate
    \/ Compare
    \/ Deploy
    \/ DeployAbort
    \/ Tick

Spec == Init /\ [][Next]_vars

\* deploys only, each running to its end: SpecDeploys
DeploysNext ==
    \/ Deploy
    \/ Tick

SpecDeploys == Init /\ [][DeploysNext]_vars

---------------------------------------------------------------------------
(* The index runs alone: SpecIndex. *)

IndexInit == SysInit /\ call = NoCall

IndexNext ==
    \E col \in Corpora, force \in BOOLEAN, no_embeddings \in BOOLEAN :
        index_collection(col, force, no_embeddings)

SpecIndex == IndexInit /\ [][IndexNext]_vars

---------------------------------------------------------------------------
(* The chunker alone: SpecChunk. *)

ChunkInit ==
    /\ SysInit
    /\ call \in {[fn |-> "chunk_markdown",
                  arg |-> [doc |-> d, heading_level |-> h],
                  done |-> FALSE, ret |-> <<>>] :
                    d \in GenDocs, h \in HeadingLevels}

CallChunk ==
    /\ call.fn = "chunk_markdown"
    /\ ~call.done
    /\ call' = [call EXCEPT !.done = TRUE,
                            !.ret = chunk_markdown(call.arg.doc, call.arg.heading_level)]
    /\ UNCHANGED sysVars

ChunkNext == CallChunk

SpecChunk == ChunkInit /\ [][ChunkNext]_vars

---------------------------------------------------------------------------
(* rrf_fuse alone: SpecRRF. *)

ChunkIds == {"a", "b", "c"}

\* the rrf_k of a configuration: a positive integer, 60 by default
RrfKs == {1, 2, 60}

\* ranked lists: distinct ids, scores descending
RankedLists ==
    {[i \in 1..Len(ids) |-> <<ids[i], Len(ids) - i>>] :
        ids \in {s \in SeqsUpTo(ChunkIds, MaxRanked) :
                    \A i, j \in 1..Len(s) : i # j => s[i] # s[j]}}

RRFInit ==
    /\ SysInit
    /\ call \in {[fn |-> "rrf_fuse",
                  arg |-> [bm25_results |-> b, vector_results |-> v, rrf_k |-> k],
                  done |-> FALSE, ret |-> <<>>] :
                    b \in RankedLists, v \in RankedLists, k \in RrfKs}

CallFuse ==
    /\ call.fn = "rrf_fuse"
    /\ ~call.done
    /\ \E all_ids \in IterationOrders(DOMAIN RankMap(call.arg.bm25_results)
                                      \cup DOMAIN RankMap(call.arg.vector_results)) :
          call' = [call EXCEPT !.done = TRUE,
                               !.ret = rrf_fuse(call.arg.bm25_results,
                                                call.arg.vector_results,
                                                call.arg.rrf_k, all_ids)]
    /\ UNCHANGED sysVars

RRFNext == CallFuse

SpecRRF == RRFInit /\ [][RRFNext]_vars

---------------------------------------------------------------------------
(* apply_dynamic_k alone: SpecDynK. *)

\* result lists: item i carries a score; any order of scores
ResultLists ==
    {[i \in 1..Len(scores) |-> <<i, scores[i]>>] :
        scores \in SeqsUpTo(0..MaxScore, MaxResults)}

\* gap_threshold_factor: 0, 1/2, 1, 2
Factors == {[num |-> 0, den |-> 1], [num |-> 1, den |-> 2],
            [num |-> 1, den |-> 1], [num |-> 2, den |-> 1]}

DynKInit ==
    /\ SysInit
    /\ call \in {[fn |-> "apply_dynamic_k",
                  arg |-> [results |-> r, gap_threshold_factor |-> f,
                           min_results |-> lo, max_results |-> hi],
                  done |-> FALSE, ret |-> <<>>] :
                    r \in ResultLists, f \in Factors,
                    lo \in 0..MaxResults, hi \in (0 - 1)..(MaxResults + 1)}

CallDynK ==
    /\ call.fn = "apply_dynamic_k"
    /\ ~call.done
    /\ call' = [call EXCEPT !.done = TRUE,
                            !.ret = apply_dynamic_k(call.arg.results,
                                                    call.arg.gap_threshold_factor,
                                                    call.arg.min_results,
                                                    call.arg.max_results)]
    /\ UNCHANGED sysVars

DynKNext == CallDynK

SpecDynK == DynKInit /\ [][DynKNext]_vars

---------------------------------------------------------------------------
(* core/evaluator.py: compute_udcg *)

\* 1.0 / math.log2(position + 1) in units of 1/1000000, to the nearest unit
Log2Discounts == <<1000000, 630930, 500000, 430677, 386853, 356207, 333333, 315465>>

Discount(position) == Log2Discounts[position]

\* the nearest integer to a / b, for b > 0: round() of a quotient
RoundDiv(a, b) == (2 * a + b) \div (2 * b)

\* the nearest integer to 10000 * a / b, for b > 0, by long division
RoundDiv10000(a, b) ==
    LET q == (a * 100) \div b
        r == (a * 100) % b
    IN  q * 100 + RoundDiv(r * 100, b)

UtilityPenalisingUnlabelled(doc_id, relevant_docs, distractor_docs) ==
    IF doc_id \in relevant_docs THEN 1 ELSE 0 - 1

\* utility: 1.0 for a relevant document, -1.0 for a distractor, else 0.0
Utility(doc_id, relevant_docs, distractor_docs) ==
    IF doc_id \in relevant_docs THEN 1
    ELSE IF doc_id \in distractor_docs THEN 0 - 1
    ELSE 0

RECURSIVE UdcgLoopUniquePositions(_, _, _, _, _, _, _)
UdcgLoopUniquePositions(results, relevant_docs, distractor_docs, i, position, seen_docs, acc) ==
    IF i > Len(results) THEN acc
    ELSE LET doc_id == results[i].doc_id
         IN  IF doc_id \in seen_docs
             THEN UdcgLoopUniquePositions(results, relevant_docs, distractor_docs,
                                          i + 1, position, seen_docs, acc)
             ELSE LET utility == Utility(doc_id, relevant_docs, distractor_docs)
                  IN  UdcgLoopUniquePositions(
                          results, relevant_docs, distractor_docs, i + 1,
                          position + 1, seen_docs \cup {doc_id},
                          [udcg |-> acc.udcg + utility * Discount(position + 1),
                           relevant_in_top_k |->
                               acc.relevant_in_top_k + (IF utility = 1 THEN 1 ELSE 0),
                           distractor_count |->
                               acc.distractor_count + (IF utility = 0 - 1 THEN 1 ELSE 0)])

RECURSIVE UdcgLoopCreditingEveryChunk(_, _, _, _, _, _, _)
UdcgLoopCreditingEveryChunk(results, relevant_docs, distractor_docs, i, position, seen_docs, acc) ==
    IF i > Len(results) THEN acc
    ELSE LET utility == Utility(results[i].doc_id, relevant_docs, distractor_docs)
         IN  UdcgLoopCreditingEveryChunk(
                 results, relevant_docs, distractor_docs, i + 1,
                 position + 1, seen_docs,
                 [udcg |-> acc.udcg + utility * Discount(position + 1),
                  relevant_in_top_k |->
                      acc.relevant_in_top_k + (IF utility = 1 THEN 1 ELSE 0),
                  distractor_count |->
                      acc.distractor_count + (IF utility = 0 - 1 THEN 1 ELSE 0)])

\* the loop of compute_udcg over results[:k], from the i-th result on;
\* position is the counter before the iteration, udcg in units of 1/1000000
RECURSIVE UdcgLoop(_, _, _, _, _, _, _)
UdcgLoop(results, relevant_docs, distractor_docs, i, position, seen_docs, acc) ==
    IF i > Len(results) THEN acc
    ELSE LET doc_id == results[i].doc_id
         IN  IF doc_id \in seen_docs
             THEN UdcgLoop(results, relevant_docs, distractor_docs, i + 1,
                           position + 1, seen_docs, acc)
             ELSE LET utility == Utility(doc_id, relevant_docs, distractor_docs)
                  IN  UdcgLoop(
                          results, relevant_docs, distractor_docs, i + 1,
                          position + 1, seen_docs \cup {doc_id},
                          [udcg |-> acc.udcg + utility * Discount(position + 1),
                           relevant_in_top_k |->
                               acc.relevant_in_top_k + (IF utility = 1 THEN 1 ELSE 0),
                           distractor_count |->
                               acc.distractor_count + (IF utility = 0 - 1 THEN 1 ELSE 0)])

IdealUdcgUndiscounted(n) == n * Discount(1)

\* ideal_udcg: the sum of 1.0 / math.log2(i + 1) for i in 1..n
RECURSIVE IdealUdcg(_)
IdealUdcg(n) == IF n = 0 THEN 0 ELSE IdealUdcg(n - 1) + Discount(n)

\* compute_udcg(results, golden_query, k); the values returned are rounded
\* to four decimals and given in units of 1/10000
compute_udcg(results, golden_query, k) ==
    LET relevant_docs == golden_query.relevant
        distractor_docs == golden_query.distractors
        acc == UdcgLoop(Slice(results, k), relevant_docs, distractor_docs, 1, 0, {},
                        [udcg |-> 0, relevant_in_top_k |-> 0, distractor_count |-> 0])
        ideal_udcg == IdealUdcg(Cardinality(relevant_docs))
    IN  [nudcg |-> IF ideal_udcg > 0 THEN RoundDiv10000(acc.udcg, ideal_udcg) ELSE 0,
         udcg |-> RoundDiv(acc.udcg, 100),
         ideal_udcg |-> RoundDiv(ideal_udcg, 100),
         precision_at_k |-> IF k > 0 THEN RoundDiv(acc.relevant_in_top_k * 10000, k)
                            ELSE 0,
         distractor_count |-> acc.distractor_count]

---------------------------------------------------------------------------
(* compute_udcg alone: SpecUdcg. *)

DocIds == {"d1", "d2", "d3"}

\* ranked results: result i is chunk i, of some document
RetrievedLists ==
    {[i \in 1..Len(docs) |-> [chunk_id |-> i, doc_id |-> docs[i]]] :
        docs \in SeqsUpTo(DocIds, MaxRetrieved)}

\* the records of a gold set: relevant and distractor documents
GoldRecords == [relevant : SUBSET DocIds, distractors : SUBSET DocIds]

UdcgInit ==
    /\ SysInit
    /\ call \in {[fn |-> "compute_udcg",
                  arg |-> [results |-> r, golden_query |-> g, k |-> k],
                  done |-> FALSE, ret |-> <<>>] :
                    r \in RetrievedLists, g \in GoldRecords,
                    k \in (0 - 1)..(MaxRetrieved + 1)}

CallUdcg ==
    /\ call.fn = "compute_udcg"
    /\ ~call.done
    /\ call' = [call EXCEPT !.done = TRUE,
                            !.ret = compute_udcg(call.arg.results,
                                                 call.arg.golden_query, call.arg.k)]
    /\ UNCHANGED sysVars

UdcgNext == CallUdcg

SpecUdcg == UdcgInit /\ [][UdcgNext]_vars

---------------------------------------------------------------------------
(* core/evaluator.py: _diff_dicts *)

\* JSON values: a dict is [dict |-> a function from keys to values], any
\* other value is [leaf |-> v]; None, which dict.get gives for a missing
\* key and json.loads for null, is JsonNone
JsonNone == [none |-> TRUE]

JsonLeaf(v) == [leaf |-> v]

JsonDict(f) == [dict |-> f]

\* isinstance(val, dict)
IsDict(val) == "dict" \in DOMAIN val

\* dict.get(key)
JsonGet(d, key) == IF key \in DOMAIN d THEN d[key] ELSE JsonNone

\* the keys of the model's documents, in sorted order
KeyOrder == << <<"k">>, <<"m">> >>

\* sorted(keys)
SortedKeys(keys) == SelectSeq(KeyOrder, LAMBDA key : key \in keys)

\* f"{prefix}.{key}" if prefix else key
DottedPath(prefix, key) == IF prefix # <<>> THEN prefix \o <<".">> \o key ELSE key

RECURSIVE diff_dicts(_, _, _)
RECURSIVE DiffLoop(_, _, _, _, _)

\* the loop of _diff_dicts over all_keys, from the i-th key on
DiffLoop(a, b, prefix, all_keys, i) ==
    IF i > Len(all_keys) THEN <<>>
    ELSE LET key == all_keys[i]
             path == DottedPath(prefix, key)
             val_a == JsonGet(a, key)
             val_b == JsonGet(b, key)
             rest == DiffLoop(a, b, prefix, all_keys, i + 1)
         IN  IF IsDict(val_a) /\ IsDict(val_b)
             THEN diff_dicts(val_a.dict, val_b.dict, path) \o rest
             ELSE IF val_a # val_b
                  THEN <<[field |-> path, a |-> val_a, b |-> val_b]>> \o rest
                  ELSE rest

\* _diff_dicts(a, b, prefix)
diff_dicts(a, b, prefix) ==
    DiffLoop(a, b, prefix, SortedKeys(DOMAIN a \cup DOMAIN b), 1)

---------------------------------------------------------------------------
(* _diff_dicts alone: SpecDiff. *)

\* the functions from a subset of keys to values
PartialMaps(keys, values) == UNION {[ks -> values] : ks \in SUBSET keys}

\* nested objects: leaves only
InnerDicts == {JsonDict(f) : f \in PartialMaps(Range(KeyOrder), {JsonLeaf(v) : v \in 1..MaxLeaf})}

\* configuration documents: under k a leaf, null or a nested object, under
\* m a leaf
ConfigDocs ==
    {f \in PartialMaps(Range(KeyOrder),
                       {JsonLeaf(v) : v \in 1..MaxLeaf} \cup {JsonNone} \cup InnerDicts) :
        <<"m">> \in DOMAIN f => "leaf" \in DOMAIN f[<<"m">>]}

DiffInit ==
    /\ SysInit
    /\ call \in {[fn |-> "_diff_dicts", arg |-> [a |-> a, b |-> b],
                  done |-> FALSE, ret |-> <<>>] :
                    a \in ConfigDocs, b \in ConfigDocs}

CallDiff ==
    /\ call.fn = "_diff_dicts"
    /\ ~call.done
    /\ call' = [call EXCEPT !.done = TRUE,
                            !.ret = diff_dicts(call.arg.a, call.arg.b, <<>>)]
    /\ UNCHANGED sysVars

DiffNext == CallDiff

SpecDiff == DiffInit /\ [][DiffNext]_vars

---------------------------------------------------------------------------
(* tokenize alone: SpecTok. *)

\* the characters of the texts: letters of both cases, a digit, a space
\* and punctuation; a, an and at are stop words
TextChars == {"a", "T", "n", "1", " ", "-"}

Texts == SeqsUpTo(TextChars, MaxText)

TokInit ==
    /\ SysInit
    /\ call \in {[fn |-> "tokenize", arg |-> [text |-> t],
                  done |-> FALSE, ret |-> <<>>] : t \in Texts}

CallTokenize ==
    /\ call.fn = "tokenize"
    /\ ~call.done
    /\ call' = [call EXCEPT !.done = TRUE, !.ret = tokenize(call.arg.text)]
    /\ UNCHANGED sysVars

TokNext == CallTokenize

SpecTok == TokInit /\ [][TokNext]_vars

---------------------------------------------------------------------------
(* core/searcher.py: bm25_search *)

\* K1 = 1.2 and B = 0.75
K1 == [num |-> 6, den |-> 5]

B == [num |-> 3, den |-> 4]

\* math.log((N - df + 0.5) / (df + 0.5) + 1.0) = ln((2N + 2) / (2df + 1))
\* in units of 1/100000, row N = 1..5, column df = 1..6
LogTable ==
    << <<28768, -22314, -55962, -81093, -101160, -117865>>,
       <<69315, 18232, -15415, -40547, -60614, -77319>>,
       <<98083, 47000, 13353, -11778, -31845, -48551>>,
       <<120397, 69315, 35667, 10536, -9531, -26236>>,
       <<138629, 87547, 53900, 28768, 8701, -8004>> >>

Idf(N, df) == LogTable[N][df]

\* idf * numerator / denominator with numerator = tf * (K1 + 1) and
\* denominator = tf + K1 * (1 - B + B * dl / avgdl), in units of 1/100000;
\* dl and avgdl are fractions, avgdl is not 0
Bm25Term(N, df, tf, dl, avgdl) ==
    LET unit == K1.den * B.den * dl.den * avgdl.num
        numerator == tf * (K1.num + K1.den) * B.den * dl.den * avgdl.num
        denominator == tf * unit
                       + K1.num * ((B.den - B.num) * dl.den * avgdl.num
                                   + B.num * dl.num * avgdl.den)
    IN  RoundDiv(Idf(N, df) * numerator, denominator)

\* the store object handed to the searcher: the tables as they stand
Store ==
    [chunks |-> chunks, postings |-> postings,
     term_stats |-> term_stats, corpus_stats |-> corpus_stats]

\* allowed_ids is None (<<>>) or a set of ids (<<ids>>)
NoFilter == <<>>

AllowedIgnoringFilter(allowed_ids, cid) == TRUE

Allowed(allowed_ids, cid) == allowed_ids = NoFilter \/ cid \in allowed_ids[1]

\* the ids a scan of the chunks table or of the postings table can yield
ScanIds(store) ==
    DOMAIN store.chunks \cup {key[2] : key \in DOMAIN store.postings}

\* bm25_search(query_tokens, store, allowed_ids); scan is the order in
\* which the rows of a table come back from SELECT. The value is the list
\* of (chunk_id, score); raised tells that ZeroDivisionError left the call
bm25_search(query_tokens, store, allowed_ids, scan) ==
    LET stats == get_corpus_stats(store.corpus_stats)
        N == stats.total_chunks
        avgdl == [num |-> stats.avg_num, den |-> stats.avg_den]
        df(term) == GetOr(store.term_stats, term, 0)
        Hit(term, cid) ==
            /\ df(term) # 0
            /\ <<term, cid>> \in DOMAIN store.postings
            /\ Allowed(allowed_ids, cid)
        touched == {cid \in ScanIds(store) :
                       \E i \in 1..Len(query_tokens) : Hit(query_tokens[i], cid)}
        dl(cid) == IF cid \in DOMAIN store.chunks
                   THEN [num |-> store.chunks[cid].char_length, den |-> 1]
                   ELSE avgdl
        keys == Distinct(
                    Concat([i \in 1..Len(query_tokens) |->
                               LET OfTerm(cid) == Hit(query_tokens[i], cid)
                               IN  SelectSeq(scan, OfTerm)]), {})
        total(cid) ==
            SumSeq([i \in 1..Len(query_tokens) |->
                       IF Hit(query_tokens[i], cid)
                       THEN Bm25Term(N, df(query_tokens[i]),
                                     store.postings[<<query_tokens[i], cid>>],
                                     dl(cid), avgdl)
                       ELSE 0])
        scores == [j \in 1..Len(keys) |->
                      [cid |-> keys[j],
                       score |-> [num |-> total(keys[j]), den |-> 1]]]
        sorted == SortedByScore(scores, <<>>)
    IN  IF N = 0 THEN [raised |-> FALSE, value |-> <<>>]
        ELSE IF touched # {} /\ avgdl.num = 0
        THEN [raised |-> TRUE, value |-> <<>>]
        ELSE [raised |-> FALSE,
              value |-> [j \in 1..Len(sorted) |->
                            <<sorted[j].cid, sorted[j].score>>]]

\* the queries of the model and their tokens, computed once
LineYZ == <<"y"," ","z">>

Queries == {LineX, LineYZ}

QueryTokens == [q \in Queries |-> tokenize(q)]

\* one of the orders a scan can have
AnyOrder(S) == CHOOSE order \in IterationOrders(S) : TRUE

---------------------------------------------------------------------------
(* core/store.py and core/searcher.py: the search pipeline *)

\* json_extract(metadata_json, '$.key') IN (values) for every key of the
\* filter, the clauses joined by AND; a key the metadata lacks is NULL
MatchesFilters(row, filters) ==
    \A key \in DOMAIN filters :
        /\ key \in DOMAIN row.metadata_json
        /\ row.metadata_json[key] \in Range(filters[key])

\* get_all_chunks(filters): the rows of the chunks table in the order of
\* the scan; all rows when the filter is None or empty
get_all_chunks(store, filters, scan) ==
    LET Stored(cid) == cid \in DOMAIN store.chunks
        rows == [i \in 1..Len(SelectSeq(scan, Stored)) |->
                    store.chunks[SelectSeq(scan, Stored)[i]]]
        Matching(row) == MatchesFilters(row, filters)
    IN  IF DOMAIN filters = {} THEN rows ELSE SelectSeq(rows, Matching)

\* get_chunk_by_id: None (<<>>) when no row has the id
get_chunk_by_id(store, chunk_id) ==
    IF chunk_id \in DOMAIN store.chunks THEN <<store.chunks[chunk_id]>> ELSE <<>>

\* the scores vector_search computes for the rows it kept (lines
\* 128-138). Embeddings have no negative component, so the order by
\* cosine = dot / (norm * query_norm) is the order by dot^2 / norm^2,
\* which stands for the score
CosineRanking(query_text, rows) ==
    LET query_emb == generate_embeddings(<<query_text>>)[1]
        Dot(e) == e[1] * query_emb[1] + e[2] * query_emb[2]
        Norm2(e) == IF e[1] * e[1] + e[2] * e[2] = 0 THEN 1
                    ELSE e[1] * e[1] + e[2] * e[2]
        results == [i \in 1..Len(rows) |->
                       [cid |-> rows[i].id,
                        score |-> [num |-> Dot(rows[i].embedding) * Dot(rows[i].embedding),
                                   den |-> Norm2(rows[i].embedding)]]]
        sorted == SortedByScore(results, <<>>)
    IN  IF Dot(query_emb) = 0 THEN <<>>
        ELSE [i \in 1..Len(sorted) |-> <<sorted[i].cid, sorted[i].score>>]

vector_search_embedding_first(query_text, store, allowed_ids, scan, provider_up) ==
    LET Kept(row) == row.embedding # NoEmbedding /\ Allowed(allowed_ids, row.id)
        rows == SelectSeq(get_all_chunks(store, EmptyTable, scan), Kept)
    IN  IF ~provider_up
        THEN [provider_error |-> TRUE, provider_calls |-> 1, value |-> <<>>]
        ELSE [provider_error |-> FALSE, provider_calls |-> 1,
              value |-> IF rows = <<>> THEN <<>>
                        ELSE CosineRanking(query_text, rows)]

\* vector_search(query_text, store, allowed_ids); scan is the order of
\* SELECT * FROM chunks. generate_embeddings raises when the provider is
\* not available (provider_up false); provider_calls counts its calls,
\* provider_error tells that its exception left the call
vector_search(query_text, store, allowed_ids, scan, provider_up) ==
    LET Kept(row) == row.embedding # NoEmbedding /\ Allowed(allowed_ids, row.id)
        rows == SelectSeq(get_all_chunks(store, EmptyTable, scan), Kept)
    IN  IF rows = <<>>
        THEN [provider_error |-> FALSE, provider_calls |-> 0, value |-> <<>>]
        ELSE IF ~provider_up
        THEN [provider_error |-> TRUE, provider_calls |-> 1, value |-> <<>>]
        ELSE [provider_error |-> FALSE, provider_calls |-> 1,
              value |-> CosineRanking(query_text, rows)]

\* None as the disagreement of a result
NoDisagreement == <<>>

flag_distractors_at_threshold(results, disagreement_threshold) ==
    [i \in 1..Len(results) |->
        LET r == results[i]
            disagreement ==
                [num |-> Max(r.bm25_rank, r.vector_rank) - Min(r.bm25_rank, r.vector_rank),
                 den |-> Max(r.bm25_rank, r.vector_rank)]
        IN  IF r.bm25_rank > 0 /\ r.vector_rank > 0
            THEN [r EXCEPT !.disagreement = <<disagreement>>,
                           !.flagged = FracLeq(disagreement_threshold, disagreement)]
            ELSE r]

\* flag_distractors(results, disagreement_threshold); the threshold and
\* the disagreement are fractions
flag_distractors(results, disagreement_threshold) ==
    [i \in 1..Len(results) |->
        LET r == results[i]
            max_rank == Max(r.bm25_rank, r.vector_rank)
            disagreement ==
                [num |-> Max(r.bm25_rank, r.vector_rank) - Min(r.bm25_rank, r.vector_rank),
                 den |-> max_rank]
        IN  IF r.bm25_rank > 0 /\ r.vector_rank > 0
            THEN [r EXCEPT !.disagreement = <<disagreement>>,
                           !.flagged = ~FracLeq(disagreement, disagreement_threshold)]
            ELSE r]

SingleSourceZeroBased(results, rrf_k, stage) ==
    [i \in 1..Len(results) |->
        [cid |-> results[i][1],
         score |-> [num |-> 1, den |-> rrf_k + i - 1],
         bm25_rank |-> IF stage = "bm25" THEN i ELSE 0,
         vector_rank |-> IF stage = "vector" THEN i ELSE 0]]

\* [(cid, 1.0 / (rrf_k + rank + 1), rank + 1, 0) for rank, (cid, _) in
\* enumerate(results)], and the same with the ranks exchanged
SingleSource(results, rrf_k, stage) ==
    [i \in 1..Len(results) |->
        [cid |-> results[i][1],
         score |-> [num |-> 1, den |-> rrf_k + i],
         bm25_rank |-> IF stage = "bm25" THEN i ELSE 0,
         vector_rank |-> IF stage = "vector" THEN i ELSE 0]]

RECURSIVE Gcd(_, _)
Gcd(a, b) == IF b = 0 THEN a ELSE Gcd(b, a % b)

RECURSIVE LcmOfDens(_)
LcmOfDens(fused) ==
    IF fused = <<>> THEN 1
    ELSE LET rest == LcmOfDens(Tail(fused))
             den == Head(fused).score.den
         IN  (den \div Gcd(den, rest)) * rest

\* the fused list as apply_dynamic_k reads it, (cid, score): the scores on
\* their common denominator, which the gap rule does not depend on
Scored(fused) ==
    [i \in 1..Len(fused) |->
        <<fused[i].cid,
          fused[i].score.num * (LcmOfDens(fused) \div fused[i].score.den)>>]

\* the SearchResult objects of the fused list, an id with no stored chunk
\* left out
RECURSIVE Hydrate(_, _)
Hydrate(store, fused) ==
    IF fused = <<>> THEN <<>>
    ELSE LET f == Head(fused)
             chunk == get_chunk_by_id(store, f.cid)
         IN  IF chunk = <<>> THEN Hydrate(store, Tail(fused))
             ELSE <<[chunk_id |-> f.cid,
                     doc_id |-> chunk[1].doc_id,
                     score |-> f.score,
                     text_preview |-> Slice(chunk[1].text, 150),
                     category |-> GetOr(chunk[1].metadata_json, "category", <<>>),
                     bm25_rank |-> f.bm25_rank,
                     vector_rank |-> f.vector_rank,
                     flagged |-> FALSE,
                     disagreement |-> NoDisagreement]>>
                 \o Hydrate(store, Tail(fused))

\* allowed_ids of search: None without filters, else the ids of the
\* chunks the filters select
AllowedIds(filters, store, scan) ==
    IF DOMAIN filters = {} THEN NoFilter
    ELSE <<{get_all_chunks(store, filters, scan)[i].id :
               i \in 1..Len(get_all_chunks(store, filters, scan))}>>

\* the stages of search before hydration (lines 227-291): what the
\* scorers returned, the fused list, the list capped at top_k and the
\* list dynamic-k leaves. scan is the order in which SELECT returns rows,
\* set_order the order in which rrf_fuse iterates over the set of ids;
\* raised tells that bm25_search raised, provider_error that
\* vector_search did, the provider not being available
Stages(query, config, store, scan, set_order, provider_up) ==
    LET retrieval == config.retrieval
        method == retrieval.method
        top_k == retrieval.top_k
        rrf_k == GetOr(retrieval, "rrf_k", 60)
        dynamic_k_cfg == GetOr(config, "dynamic_k", EmptyTable)
        filters == GetOr(config, "filters", EmptyTable)
        allowed_ids == AllowedIds(filters, store, scan)
        query_tokens == tokenize(query)
        bm25 == IF method \in {"keyword", "hybrid"}
                THEN bm25_search(query_tokens, store, allowed_ids, scan)
                ELSE [raised |-> FALSE, value |-> <<>>]
        bm25_results == bm25.value
        vector == IF method \in {"vector", "hybrid"} /\ ~bm25.raised
                  THEN vector_search(query, store, allowed_ids, scan, provider_up)
                  ELSE [provider_error |-> FALSE, provider_calls |-> 0,
                        value |-> <<>>]
        vector_results == vector.value
        InUnion(cid) ==
            \/ \E i \in 1..Len(bm25_results) : bm25_results[i][1] = cid
            \/ \E i \in 1..Len(vector_results) : vector_results[i][1] = cid
        fused ==
            IF method = "hybrid" /\ bm25_results # <<>> /\ vector_results # <<>>
            THEN rrf_fuse(bm25_results, vector_results, rrf_k,
                          SelectSeq(set_order, InUnion))
            ELSE IF method = "keyword" THEN SingleSource(bm25_results, rrf_k, "bm25")
            ELSE IF method = "vector" THEN SingleSource(vector_results, rrf_k, "vector")
            ELSE IF bm25_results # <<>> THEN SingleSource(bm25_results, rrf_k, "bm25")
            ELSE IF vector_results # <<>>
            THEN SingleSource(vector_results, rrf_k, "vector")
            ELSE <<>>
        capped == Slice(fused, top_k)
        cut ==
            IF GetOr(dynamic_k_cfg, "enabled", FALSE)
            THEN SubSeq(capped, 1,
                        Len(apply_dynamic_k(
                                Scored(capped),
                                GetOr(dynamic_k_cfg, "gap_threshold_factor",
                                      [num |-> 3, den |-> 1]),
                                GetOr(dynamic_k_cfg, "min_results", 1),
                                GetOr(dynamic_k_cfg, "max_results", top_k))))
            ELSE capped
    IN  [raised |-> bm25.raised, provider_error |-> vector.provider_error,
         provider_calls |-> vector.provider_calls, bm25_results |-> bm25_results,
         vector_results |-> vector_results, fused |-> fused,
         capped |-> capped, cut |-> cut]

\* lines 293-319 of search: hydration, then flagging when distraction
\* detection is enabled and the method is hybrid
HydrateAndFlag(stages, config, store) ==
    IF stages.raised
    THEN [raised |-> TRUE, provider_error |-> FALSE, value |-> <<>>]
    ELSE IF stages.provider_error
    THEN [raised |-> FALSE, provider_error |-> TRUE, value |-> <<>>]
    ELSE [raised |-> FALSE, provider_error |-> FALSE,
          value |->
              IF /\ GetOr(GetOr(config, "distraction_detection", EmptyTable),
                          "enabled", FALSE)
                 /\ config.retrieval.method = "hybrid"
              THEN flag_distractors(
                       Hydrate(store, stages.cut),
                       GetOr(GetOr(config, "distraction_detection", EmptyTable),
                             "disagreement_threshold", [num |-> 7, den |-> 10]))
              ELSE Hydrate(store, stages.cut)]

\* search(query, config, store)
search(query, config, store, scan, set_order, provider_up) ==
    HydrateAndFlag(Stages(query, config, store, scan, set_order, provider_up),
                   config, store)

---------------------------------------------------------------------------
(* Searches over the stores index runs leave: SpecSearch. *)

CatG == <<"g">>

\* a category no document of the model has
CatNone == <<"n">>

Methods == {"keyword", "vector", "hybrid"}

\* category filters: one category, a category no chunk has, no value
FilterSets ==
    {[category |-> <<CatG>>], [category |-> <<CatNone>>], [category |-> <<>>]}

Retrieval(method, top_k) == [method |-> method, top_k |-> top_k, rrf_k |-> 1]

\* the configurations searched with; a section a configuration lacks is
\* read with its default
SearchConfigs ==
    {[retrieval |-> Retrieval(m, 5)] : m \in Methods}
    \cup {[retrieval |-> Retrieval(m, 5), filters |-> f] :
             m \in Methods, f \in FilterSets}
    \cup {[retrieval |-> Retrieval(m, 1)] : m \in {"keyword", "hybrid"}}
    \cup {[retrieval |-> Retrieval(m, 5),
           distraction_detection |->
               [enabled |-> TRUE,
                disagreement_threshold |-> [num |-> 2, den |-> 5]]] :
             m \in {"keyword", "hybrid"}}
    \cup {[retrieval |-> Retrieval("hybrid", 5),
           distraction_detection |->
               [enabled |-> TRUE,
                disagreement_threshold |-> [num |-> 1, den |-> 2]]]}
    \cup {[retrieval |-> Retrieval(m, 5),
           dynamic_k |->
               [enabled |-> TRUE, gap_threshold_factor |-> [num |-> 1, den |-> 1],
                min_results |-> 1, max_results |-> 2]] :
             m \in {"keyword", "hybrid"}}

    \cup {[retrieval |-> Retrieval(m, 2),
           dynamic_k |->
               [enabled |-> TRUE, gap_threshold_factor |-> [num |-> 1, den |-> 2],
                min_results |-> 1, max_results |-> 3]] :
             m \in {"keyword", "hybrid"}}

SearchCorpora == {CorpusA, CorpusB, CorpusStop}

SearchInit == SysInit /\ call = NoCall

SearchIndex ==
    /\ call = NoCall
    /\ \E col \in SearchCorpora, force \in BOOLEAN, no_embeddings \in BOOLEAN :
           index_collection(col, force, no_embeddings)

\* one search; the order of the scans and of the set iteration are what
\* the database and the interpreter make them, and the embedding provider
\* is available or not
CallSearch ==
    /\ call = NoCall
    /\ pc = "idle"
    /\ \E query \in Queries, config \in SearchConfigs, provider_up \in BOOLEAN,
          scan \in IterationOrders(ScanIds(Store)) :
        \E set_order \in IF config.retrieval.method = "hybrid"
                         THEN IterationOrders(ScanIds(Store)) ELSE {scan} :
            call' = [fn |-> "search",
                     arg |-> [query |-> query, config |-> config,
                              scan |-> scan, set_order |-> set_order,
                              provider_up |-> provider_up],
                     done |-> TRUE,
                     ret |-> search(query, config, Store, scan, set_order,
                                    provider_up)]
    /\ UNCHANGED sysVars

\* the caller takes the result
SearchReturn ==
    /\ call.fn = "search"
    /\ call.done
    /\ call' = NoCall
    /\ UNCHANGED sysVars

SearchNext ==
    \/ SearchIndex
    \/ CallSearch
    \/ SearchReturn

SpecSearch == SearchInit /\ [][SearchNext]_vars

---------------------------------------------------------------------------
(* Searches over stores whose chunks were deleted: SpecStale. *)

\* store.delete_all_chunks() alone: DELETE FROM chunks is committed while
\* the postings and statistics stay, as in an index run with force that
\* stops after indexer.py:139
delete_all_chunks ==
    /\ call = NoCall
    /\ pc = "idle"
    /\ chunks # EmptyTable
    /\ chunks' = EmptyTable
    /\ UNCHANGED <<postings, term_stats, corpus_stats, config_versions,
                   eval_results, active, now, pc, frame, outcome, call>>

StaleNext ==
    \/ SearchIndex
    \/ delete_all_chunks
    \/ CallSearch
    \/ SearchReturn

SpecStale == SearchInit /\ [][StaleNext]_vars

---------------------------------------------------------------------------
(* core/indexer.py, core/embeddings.py: the index run with --embeddings-cache *)

\* the cache path names no file
NoCacheFile == <<>>

\* save_embeddings_cache(embeddings, chunk_ids, path): the file written
save_embeddings_cache(embeddings, chunk_ids) ==
    <<[embeddings |-> embeddings, chunk_ids |-> chunk_ids]>>

\* load_embeddings_cache(path): (embeddings, chunk_ids)
load_embeddings_cache(file) == <<file[1].embeddings, file[1].chunk_ids>>

\* dict(zip(cached_ids, embeddings_array)): zip stops at the shorter one, a
\* later entry of the same id replaces an earlier one
id_to_emb(cached_ids, embeddings_array) ==
    LET n == Min(Len(cached_ids), Len(embeddings_array))
    IN  [cid \in {cached_ids[j] : j \in 1..n} |->
            embeddings_array[CHOOSE j \in 1..n :
                                /\ cached_ids[j] = cid
                                /\ \A q \in 1..n : cached_ids[q] = cid => q <= j]]

\* missing_indices: the positions from i on whose id the cache lacks, in
\* the order of the loop
RECURSIVE missing_indices(_, _, _)
missing_indices(chunk_ids_ordered, map, i) ==
    IF i > Len(chunk_ids_ordered) THEN <<>>
    ELSE (IF chunk_ids_ordered[i] \in DOMAIN map THEN <<>> ELSE <<i>>)
            \o missing_indices(chunk_ids_ordered, map, i + 1)

MissIndexFromEnd(missing, idx) ==
    Len(missing) + 1 - (CHOOSE j \in 1..Len(missing) : missing[j] = idx)

\* for j, idx in enumerate(missing_indices): the j that goes with idx
MissIndex(missing, idx) == CHOOSE j \in 1..Len(missing) : missing[j] = idx

\* the embeddings_array of a run with an embeddings cache: hits from the
\* file, misses generated from the chunks' texts in one call and put back
\* at their positions; everything generated when there is no file
CachedEmbeddings(all_chunks, file) ==
    LET chunk_ids_ordered == [i \in 1..Len(all_chunks) |-> all_chunks[i].id]
    IN  IF file # NoCacheFile
        THEN LET loaded == load_embeddings_cache(file)
                 map == id_to_emb(loaded[2], loaded[1])
                 missing == missing_indices(chunk_ids_ordered, map, 1)
                 missing_texts == [j \in 1..Len(missing) |-> all_chunks[missing[j]].text]
                 new_embs == IF missing_texts # <<>>
                             THEN generate_embeddings(missing_texts) ELSE <<>>
             IN  [i \in 1..Len(all_chunks) |->
                    IF chunk_ids_ordered[i] \in DOMAIN map
                    THEN map[chunk_ids_ordered[i]]
                    ELSE new_embs[MissIndex(missing, i)]]
        ELSE generate_embeddings([i \in 1..Len(all_chunks) |-> all_chunks[i].text])

\* the rows of the chunks table with the embeddings of embeddings_array
RowsWithEmbeddings(rows, embeddings_array) ==
    [i \in 1..Len(rows) |-> [rows[i] EXCEPT !.embedding = embeddings_array[i]]]

\* the file at the cache path: what the last run left there
CacheFile == call.ret

\* index_collection(collection_path, store, force, embeddings_cache) with an
\* embeddings cache, on the collection col found on disk; a run that
\* completes. call.arg keeps the inputs of the run, the file included
IndexWithCache(col, force) ==
    LET cleared == [chunks |-> IF force THEN EmptyTable ELSE chunks,
                    postings |-> IF force THEN EmptyTable ELSE postings,
                    term_stats |-> IF force THEN EmptyTable ELSE term_stats]
        plan == IndexPlanOf[col]
        all_chunks == plan.all_chunks
        built == plan.built
        embeddings_array == CachedEmbeddings(all_chunks, CacheFile)
    IN  /\ pc = "idle"
        /\ call.fn = "index_collection"
        /\ IF col.docs = <<>>
           THEN /\ chunks' = cleared.chunks
                /\ postings' = cleared.postings
                /\ term_stats' = cleared.term_stats
                /\ corpus_stats' = corpus_stats
                /\ outcome' = [cmd |-> "index", exit |-> 0,
                               info |-> [force |-> force, documents |-> 0,
                                         chunks |-> 0, terms |-> 0]]
                /\ call' = [call EXCEPT !.arg = [col |-> col, force |-> force,
                                                 file |-> CacheFile],
                                        !.done = TRUE]
           ELSE /\ chunks' = insert_chunks(cleared.chunks,
                                           RowsWithEmbeddings(plan.rows[FALSE],
                                                              embeddings_array))
                /\ postings' = insert_postings(cleared.postings, built.postings)
                /\ term_stats' = insert_term_stats(cleared.term_stats, built.term_stats)
                /\ corpus_stats' = upsert_corpus_stats(built.corpus_stats[1],
                                                       built.corpus_stats[2])
                /\ outcome' = [cmd |-> "index", exit |-> 0,
                               info |-> [force |-> force,
                                         documents |-> Len(col.docs),
                                         chunks |-> Len(all_chunks),
                                         terms |-> Len(built.term_stats)]]
                /\ call' = [call EXCEPT
                              !.arg = [col |-> col, force |-> force, file |-> CacheFile],
                              !.done = TRUE,
                              !.ret = save_embeddings_cache(
                                          embeddings_array,
                                          [i \in 1..Len(all_chunks) |-> all_chunks[i].id])]
        /\ UNCHANGED <<config_versions, eval_results, active, now, pc, frame>>

CacheInit ==
    /\ SysInit
    /\ call = [fn |-> "index_collection", arg |-> <<>>, done |-> FALSE,
               ret |-> NoCacheFile]

CacheNext == \E col \in Corpora, force \in BOOLEAN : IndexWithCache(col, force)

SpecCache == CacheInit /\ [][CacheNext]_vars

---------------------------------------------------------------------------
(* Claims about deploy and the evaluation log. *)

\* the aggregate nudcg evaluate_config returns for a configuration
MeanNudcg(config) == evaluate_config(<<>>, config, 0).nudcg

C2_ExactlyOneActive ==
    /\ (/\ pc = "idle"
        /\ \E i \in 1..Len(config_versions) : config_versions[i].deployed_at # <<>>)
       => Exists(ActivePath, active)
    /\ pc \in {"unlink", "symlink", "insert", "mark"}
       => \/ frame.active_nudcg = <<>>
          \/ ~(frame.candidate_nudcg < frame.active_nudcg[1])

\* C3: after any sequence of successful deploys, get_active_config returns
\* the configuration of the most recent one, also when two deploys carry the
\* same timestamp, and it is the configuration the active pointer designates.
C3_MostRecentDeploy ==
    (pc = "idle" /\ config_versions # <<>>)
    => LET r == get_active_config(config_versions)
           last == config_versions[Len(config_versions)]
       IN  /\ r # <<>>
           /\ r[1].config_json = last.config_json
           /\ Exists(ActivePath, active)
           /\ ReadConfig(ActivePath, active) = r[1].config_json

\* the rows a step adds to the evaluation log
NewRows == SubSeq(eval_results', Len(eval_results) + 1, Len(eval_results'))

\* rows holds, from position k * n + 1 on, one row per gold query for config
RowsFor(config, rows, k) ==
    LET n == Len(GoldQueries)
    IN  /\ Len(rows) >= (k + 1) * n
        /\ \A i \in 1..n :
              /\ rows[k * n + i].config_name = config.name
              /\ rows[k * n + i].query = GoldQueries[i]

---------------------------------------------------------------------------
(* Claims about the index. *)

\* the rows of the chunks table, as a set
StoredRows(table) == {table[id] : id \in DOMAIN table}

\* the total of char_length over the stored rows
RECURSIVE SumCharLength(_, _)
SumCharLength(table, ids) ==
    IF ids = {} THEN 0
    ELSE LET id == CHOOSE x \in ids : TRUE
         IN  table[id].char_length + SumCharLength(table, ids \ {id})

\* C5: chunk lifecycle across index runs. A forced run leaves exactly the
\* chunks of the current corpus in storage; a non-forced run stores the new
\* chunk under every chunk id of the current corpus and leaves every stored
\* chunk with another id as it was.
C5_ChunkLifecycle ==
    [][\A col \in Corpora, no_embeddings \in BOOLEAN :
          LET rows == IndexPlanOf[col].rows[no_embeddings]
              ids == {rows[i].id : i \in 1..Len(rows)}
          IN  /\ index_collection(col, TRUE, no_embeddings)
                    => StoredRows(chunks') = Range(rows)
              /\ index_collection(col, FALSE, no_embeddings)
                    => /\ \A i \in 1..Len(rows) :
                            /\ rows[i].id \in DOMAIN chunks'
                            /\ chunks'[rows[i].id] = rows[i]
                       /\ \A id \in DOMAIN chunks \ ids :
                            /\ id \in DOMAIN chunks'
                            /\ chunks'[id] = chunks[id]]_vars

\* C6: every stored term statistic has document_frequency <= the stored
\* corpus total chunk count, in every state index runs can reach.
C6_DfAtMostTotal ==
    \A t \in DOMAIN term_stats :
        term_stats[t] <= get_corpus_stats(corpus_stats).total_chunks

\* C7: after every forced index run, also over a corpus with no documents,
\* the corpus statistic is recomputed: total_chunk_count is the number of
\* stored chunks and average_chunk_length is their total token count
\* divided by their number (0 when there is none).
C7_StatsRecomputed ==
    [][\A col \in Corpora, no_embeddings \in BOOLEAN :
          index_collection(col, TRUE, no_embeddings)
            => LET st == get_corpus_stats(corpus_stats')
                   n == Cardinality(DOMAIN chunks')
                   tokens == SumCharLength(chunks', DOMAIN chunks')
               IN  /\ st.total_chunks = n
                   /\ IF n = 0 THEN st.avg_num = 0
                      ELSE st.avg_num * n = tokens * st.avg_den]_vars

\* C8: chunk ids are unique: the chunks the chunker returns for a document
\* have pairwise distinct ids.
C8_ChunkIdsUnique ==
    (call.fn = "chunk_markdown" /\ call.done)
        => \A i, j \in 1..Len(call.ret) :
              i # j => call.ret[i].id # call.ret[j].id

---------------------------------------------------------------------------
(* Claims about the query pipeline. *)

\* C9, as stated: for every input list and every gap_threshold_factor,
\* min_results and max_results, dynamic-k truncation returns at most
\* max_results items and at least min(min_results, len(input)) items.
C9_DynKBounds ==
    (call.fn = "apply_dynamic_k" /\ call.done)
    => /\ Len(call.ret) <= call.arg.max_results
       /\ Len(call.ret) >= Min(call.arg.min_results, Len(call.arg.results))

\* C9, amended: for every input list, every gap_threshold_factor and
\* min_results and every max_results >= 0, dynamic-k truncation returns at
\* most max_results items and at least
\* min(min_results, max_results, len(input)) items.
C9_DynKBoundsAmended ==
    (call.fn = "apply_dynamic_k" /\ call.done /\ call.arg.max_results >= 0)
    => /\ Len(call.ret) <= call.arg.max_results
       /\ Len(call.ret) >= Min(Min(call.arg.min_results, call.arg.max_results),
                               Len(call.arg.results))

\* a list longer than max_results was capped and then cut at a cliff, no
\* shorter than min_results
C9_Witness ==
    /\ call.fn = "apply_dynamic_k"
    /\ call.done
    /\ call.arg.max_results >= 0
    /\ call.arg.min_results >= 1
    /\ call.arg.max_results < Len(call.arg.results)
    /\ Len(call.ret) < call.arg.max_results
    /\ Len(call.ret) >= call.arg.min_results

\* C10: the fused score of an id does not increase as either of its rank
\* numbers increases, an id ranked 1 in both lists receives 2/(rrf_k+1),
\* and no id's fused score exceeds 2/(rrf_k+1).
C10_RrfMonotoneAndBounded ==
    /\ \A k \in RrfKs, br, vr \in 1..(MaxRanked + 1) :
          /\ FracLeq(RrfScore(k, br + 1, vr), RrfScore(k, br, vr))
          /\ FracLeq(RrfScore(k, br, vr + 1), RrfScore(k, br, vr))
    /\ (call.fn = "rrf_fuse" /\ call.done)
       => LET top == [num |-> 2, den |-> call.arg.rrf_k + 1]
          IN  \A i \in 1..Len(call.ret) :
                 /\ FracLeq(call.ret[i].score, top)
                 /\ (call.ret[i].bm25_rank = 1 /\ call.ret[i].vector_rank = 1)
                       => FracEq(call.ret[i].score, top)
                 /\ \A j \in 1..Len(call.ret) :
                       (/\ call.ret[i].bm25_rank <= call.ret[j].bm25_rank
                        /\ call.ret[i].vector_rank <= call.ret[j].vector_rank)
                       => FracLeq(call.ret[j].score, call.ret[i].score)

\* an id ranked 1 in both lists was fused with ids ranked lower
C10_Witness ==
    /\ call.fn = "rrf_fuse"
    /\ call.done
    /\ Len(call.ret) >= 3
    /\ call.ret[1].bm25_rank = 1
    /\ call.ret[1].vector_rank = 1
    /\ ~FracLeq(call.ret[1].score, call.ret[2].score)

---------------------------------------------------------------------------
(* Claims about the evaluator. *)

\* the documents of a result list
ResultDocs(results) == {results[i].doc_id : i \in 1..Len(results)}

\* C11, as stated: for a results list of n >= 1 different relevant
\* documents at ranks 1..n, with n <= the number of gold relevant documents
\* and k >= n, the evaluator returns nudcg = 1.0.
C11_AllRelevantIsOne ==
    (/\ call.fn = "compute_udcg"
     /\ call.done
     /\ Len(call.arg.results) >= 1
     /\ Cardinality(ResultDocs(call.arg.results)) = Len(call.arg.results)
     /\ ResultDocs(call.arg.results) \subseteq call.arg.golden_query.relevant
     /\ call.arg.k >= Len(call.arg.results))
    => call.ret.nudcg = 10000

\* C11, amended: for a results list of n >= 1 different relevant documents
\* at ranks 1..n, with n equal to the number of gold relevant documents and
\* k >= n, the evaluator returns nudcg = 1.0.
C11_AllRelevantIsOneAmended ==
    (/\ call.fn = "compute_udcg"
     /\ call.done
     /\ Len(call.arg.results) >= 1
     /\ Cardinality(ResultDocs(call.arg.results)) = Len(call.arg.results)
     /\ ResultDocs(call.arg.results) = call.arg.golden_query.relevant
     /\ call.arg.k >= Len(call.arg.results))
    => call.ret.nudcg = 10000

\* two relevant documents, all there are, were retrieved at ranks 1 and 2
C11_Witness ==
    /\ call.fn = "compute_udcg"
    /\ call.done
    /\ Len(call.arg.results) = 2
    /\ call.arg.results[1].doc_id # call.arg.results[2].doc_id
    /\ ResultDocs(call.arg.results) = call.arg.golden_query.relevant
    /\ call.arg.k >= 2
    /\ call.ret.nudcg = 10000

\* the positions of the results considered at which a document occurs for
\* the first time
FirstOccurrences(results) ==
    {p \in 1..Len(results) : \A q \in 1..(p - 1) : results[q].doc_id # results[p].doc_id}

RECURSIVE SumOver(_, _)
SumOver(S, f) ==
    IF S = {} THEN 0
    ELSE LET x == CHOOSE y \in S : TRUE IN f[x] + SumOver(S \ {x}, f)

\* C12: document-level dedup. Among the first k results only the first
\* result of a document contributes utility and is counted as a relevant
\* hit or a distractor; later results of the document contribute 0, and
\* every contribution is discounted by the result's position among all
\* results considered.
C12_DedupKeepsPositions ==
    (call.fn = "compute_udcg" /\ call.done)
    => LET considered == Slice(call.arg.results, call.arg.k)
           g == call.arg.golden_query
           first == FirstOccurrences(considered)
           hits == {p \in first : considered[p].doc_id \in g.relevant}
           bad == {p \in first : /\ considered[p].doc_id \notin g.relevant
                                 /\ considered[p].doc_id \in g.distractors}
           gain == [p \in 1..Len(considered) |->
                       IF p \in hits THEN Discount(p)
                       ELSE IF p \in bad THEN 0 - Discount(p) ELSE 0]
       IN  /\ call.ret.udcg = RoundDiv(SumOver(1..Len(considered), gain), 100)
           /\ call.ret.distractor_count = Cardinality(bad)
           /\ call.arg.k > 0
                 => call.ret.precision_at_k = RoundDiv(Cardinality(hits) * 10000, call.arg.k)

\* a second result of a relevant document was followed by another relevant
\* document, discounted by position 3
C12_Witness ==
    /\ call.fn = "compute_udcg"
    /\ call.done
    /\ call.arg.k >= 3
    /\ Len(call.arg.results) = 3
    /\ call.arg.results[1].doc_id = call.arg.results[2].doc_id
    /\ call.arg.results[3].doc_id # call.arg.results[1].doc_id
    /\ {call.arg.results[1].doc_id, call.arg.results[3].doc_id}
          \subseteq call.arg.golden_query.relevant
    /\ call.ret.udcg = RoundDiv(Discount(1) + Discount(3), 100)

\* C13: for a results list with no document of the gold relevant set and
\* none of the distractor set the evaluator returns udcg = 0 and nudcg = 0;
\* and whenever the gold relevant set is empty nudcg is 0, whatever the
\* results contain.
C13_NoLabelsIsZero ==
    (call.fn = "compute_udcg" /\ call.done)
    => LET g == call.arg.golden_query
       IN  /\ ResultDocs(call.arg.results) \cap (g.relevant \cup g.distractors) = {}
                 => (call.ret.udcg = 0 /\ call.ret.nudcg = 0)
           /\ g.relevant = {} => call.ret.nudcg = 0

\* with no relevant document in the gold record, a distractor was
\* retrieved: udcg is negative and nudcg is 0
C13_Witness ==
    /\ call.fn = "compute_udcg"
    /\ call.done
    /\ call.arg.golden_query.relevant = {}
    /\ call.ret.udcg < 0
    /\ call.ret.ideal_udcg = 0
    /\ call.ret.nudcg = 0

\* C27: for every ranked result list, every gold record with a nonempty
\* relevant set and every k >= 0, udcg is at most ideal_udcg and nudcg at
\* most 1; a relevant document that appears in several chunks is credited
\* once.
C27_UdcgAtMostIdeal ==
    (/\ call.fn = "compute_udcg"
     /\ call.done
     /\ call.arg.golden_query.relevant # {}
     /\ call.arg.k >= 0) =>
        /\ call.ret.udcg <= call.ret.ideal_udcg
        /\ call.ret.nudcg <= 10000

\* the only relevant document fills the first two ranks with two of its
\* chunks and the value reached is the ideal one
C27_Witness ==
    /\ call.fn = "compute_udcg"
    /\ call.done
    /\ call.arg.k >= 2
    /\ Cardinality(call.arg.golden_query.relevant) = 1
    /\ Len(call.arg.results) >= 2
    /\ call.arg.results[1].doc_id \in call.arg.golden_query.relevant
    /\ call.arg.results[2].doc_id = call.arg.results[1].doc_id
    /\ call.ret.udcg = call.ret.ideal_udcg
    /\ call.ret.nudcg = 10000

---------------------------------------------------------------------------
(* Claims about the configuration diff. *)

\* C15: the configuration diff reports the leaf fields whose values differ,
\* each once under its dotted path: identical documents give an empty
\* diff, every entry holds two different values, no two entries share a
\* path, and a nested object is never reported as a whole entry, also when
\* a key or a nested object is present in only one document.
C15_DiffReportsLeaves ==
    (call.fn = "_diff_dicts" /\ call.done)
    => /\ call.arg.a = call.arg.b => call.ret = <<>>
       /\ call.arg.a # call.arg.b => call.ret # <<>>
       /\ \A i \in 1..Len(call.ret) :
             /\ call.ret[i].a # call.ret[i].b
             /\ ~IsDict(call.ret[i].a)
             /\ ~IsDict(call.ret[i].b)
             /\ \A j \in 1..Len(call.ret) :
                   i # j => call.ret[i].field # call.ret[j].field

---------------------------------------------------------------------------
(* Claims about the tokenizer. *)

\* C16: tokenization is idempotent: tokenizing the space-joined output of
\* tokenize yields the same token sequence; and the index path
\* (build_postings) derives its terms, term frequencies and token count
\* from the token sequence the query path gets for the same text.
C16_TokenizeIdempotent ==
    (call.fn = "tokenize" /\ call.done)
    => /\ tokenize(Join(call.ret, <<" ">>)) = call.ret
       /\ LET built == build_postings(<<[id |-> <<"c">>, text |-> call.arg.text]>>)
          IN  /\ {built.postings[i][1] : i \in 1..Len(built.postings)} = Range(call.ret)
              /\ \A i \in 1..Len(built.postings) :
                    built.postings[i][3] = Count(built.postings[i][1], call.ret)
              /\ built.corpus_stats[2] = <<Len(call.ret), 1>>

\* a text with an upper-case letter and a stop word was tokenized to a
\* token sequence that is not empty
C16_Witness ==
    /\ call.fn = "tokenize"
    /\ call.done
    /\ call.ret # <<>>
    /\ call.arg.text # Lower(call.arg.text)
    /\ Len(SplitSpace(Cleaned(call.arg.text), 1, <<>>)) > Len(call.ret)

---------------------------------------------------------------------------
(* Claims about the chunker. *)

\* the lines of a document that are headings of the requested level
HeadingLines(lines, heading_level) ==
    {i \in 1..Len(lines) : StartsWith(lines[i], HeadingPrefix(heading_level))}

\* the last line of the section that starts at line s
SectionEnd(lines, heads, s) ==
    IF \E h \in heads : h > s
    THEN (CHOOSE h \in heads : h > s /\ \A g \in heads : g > s => h <= g) - 1
    ELSE Len(lines)

\* the text of lines from..to, joined and stripped
SectionText(lines, from, to) == StripSpace(Join(SubSeq(lines, from, to), <<"\n">>))

\* the first lines of the sections that become chunks: every heading line,
\* and line 1 when it is no heading and the content before the first
\* heading is not blank
ChunkStarts(lines, heading_level) ==
    LET heads == HeadingLines(lines, heading_level)
    IN  heads \cup (IF /\ 1 \notin heads
                       /\ SectionText(lines, 1, SectionEnd(lines, heads, 1)) # <<>>
                    THEN {1} ELSE {})

\* the chunks are, in document order, the sections that start at the
\* lines of ChunkStarts
ChunksAreSections(doc, heading_level, ret) ==
    LET lines == doc.lines
        heads == HeadingLines(lines, heading_level)
        starts == ChunkStarts(lines, heading_level)
        nth(i) == CHOOSE s \in starts : Cardinality({t \in starts : t < s}) = i - 1
    IN  /\ Len(ret) = Cardinality(starts)
        /\ \A i \in 1..Len(ret) :
              /\ ret[i].text = SectionText(lines, nth(i), SectionEnd(lines, heads, nth(i)))
              /\ ret[i].doc_id = doc.rel_path
              /\ ret[i].heading =
                    IF nth(i) \in heads
                    THEN StripSpace(SubSeq(lines[nth(i)], heading_level + 2,
                                           Len(lines[nth(i)])))
                    ELSE PathStem(doc.rel_path)

\* doc.md with the level-2 sections Setup and Usage, chunked at level 2,
\* yields exactly the ids doc.md#setup and doc.md#usage
SetupUsageIds(doc, heading_level, ret) ==
    (doc = DocSetupUsage /\ heading_level = 2)
    => [i \in 1..Len(ret) |-> ret[i].id]
          = << <<"d","o","c",".","m","d","#","s","e","t","u","p">>,
               <<"d","o","c",".","m","d","#","u","s","a","g","e">> >>

\* C18, as stated: the chunker returns, in document order, one chunk per
\* heading line of exactly the requested level, spanning that heading up to
\* the next heading of the same level, plus one leading chunk for non-blank
\* content before the first heading; whitespace-only sections are dropped;
\* a document with no heading of that level yields a single chunk; doc.md
\* with the sections Setup and Usage yields the ids doc.md#setup and
\* doc.md#usage.
C18_ChunksPerHeading ==
    (call.fn = "chunk_markdown" /\ call.done)
    => /\ ChunksAreSections(call.arg.doc, call.arg.heading_level, call.ret)
       /\ HeadingLines(call.arg.doc.lines, call.arg.heading_level) = {}
             => Len(call.ret) = 1
       /\ SetupUsageIds(call.arg.doc, call.arg.heading_level, call.ret)

\* C18, amended: as C18, but a document with no heading of that level
\* yields a single chunk when it is not blank and no chunk when it is
\* blank.
C18_ChunksPerHeadingAmended ==
    (call.fn = "chunk_markdown" /\ call.done)
    => /\ ChunksAreSections(call.arg.doc, call.arg.heading_level, call.ret)
       /\ HeadingLines(call.arg.doc.lines, call.arg.heading_level) = {}
             => Len(call.ret) =
                    IF SectionText(call.arg.doc.lines, 1, Len(call.arg.doc.lines)) # <<>>
                    THEN 1 ELSE 0
       /\ SetupUsageIds(call.arg.doc, call.arg.heading_level, call.ret)

\* a document with content before its first heading, a heading of another
\* level and a heading of the requested level gave a leading chunk and one
\* chunk for the heading
C18_Witness ==
    /\ call.fn = "chunk_markdown"
    /\ call.done
    /\ call.arg.heading_level = 2
    /\ call.arg.doc.lines = <<LineX, LineTopA, LineHeadB>>
    /\ Len(call.ret) = 2
    /\ call.ret[1].heading = PathStem(call.arg.doc.rel_path)
    /\ call.ret[2].heading = <<"B">>

---------------------------------------------------------------------------
(* Claims about the lexical scorer. *)

\* C19: in every store state that sequences of index_collection calls,
\* forced or not, can reach, bm25_search returns a ranked list and does not
\* raise a division by zero, also where the stored average chunk length is
\* 0 while postings of the query terms exist.
C19_Bm25NeverRaises ==
    \A q \in Queries :
        ~bm25_search(QueryTokens[q], Store, NoFilter,
                     AnyOrder(ScanIds(Store))).raised

\* the document length bm25_search uses for a chunk: its stored length,
\* the average when the chunk is not stored
LengthOf(cid) ==
    IF cid \in DOMAIN chunks
    THEN [num |-> chunks[cid].char_length, den |-> 1]
    ELSE [num |-> get_corpus_stats(corpus_stats).avg_num,
          den |-> get_corpus_stats(corpus_stats).avg_den]

\* C17: the contribution of one query term to one chunk does not decrease
\* when the posting's term frequency grows (document length fixed) and
\* does not increase when the term's document frequency grows, all other
\* parameters fixed. Stated for every stored posting, with the stored
\* corpus statistics and the stored document frequency of its term.
C17_Bm25Monotone ==
    LET stats == get_corpus_stats(corpus_stats)
        N == stats.total_chunks
        avgdl == [num |-> stats.avg_num, den |-> stats.avg_den]
    IN  (N # 0 /\ avgdl.num # 0) =>
            \A key \in DOMAIN postings :
                LET term == key[1]
                    df == GetOr(term_stats, term, 0)
                    tf == postings[key]
                    dl == LengthOf(key[2])
                IN  df # 0 =>
                        /\ Bm25Term(N, df, tf, dl, avgdl)
                               <= Bm25Term(N, df, tf + 1, dl, avgdl)
                        /\ Bm25Term(N, df + 1, tf, dl, avgdl)
                               <= Bm25Term(N, df, tf, dl, avgdl)

---------------------------------------------------------------------------
(* Claims about the search pipeline. *)

\* a search has returned its results
Searched ==
    /\ call.fn = "search"
    /\ call.done
    /\ ~call.ret.raised
    /\ ~call.ret.provider_error

\* what the two scorers returned in the search that call records
CallAllowed ==
    AllowedIds(GetOr(call.arg.config, "filters", EmptyTable), Store, call.arg.scan)

CallBm25 ==
    bm25_search(tokenize(call.arg.query), Store, CallAllowed, call.arg.scan).value

CallVector ==
    vector_search(call.arg.query, Store, CallAllowed, call.arg.scan,
                  call.arg.provider_up).value

Ids(results) == {results[i][1] : i \in 1..Len(results)}

\* C20: in a hybrid search where both scorers returned results, a result
\* whose chunk only one scorer returned has rank 0 for the other stage and
\* is left unflagged, its disagreement null.
C20_AbsentStageUnflagged ==
    (/\ Searched
     /\ call.arg.config.retrieval.method = "hybrid"
     /\ CallBm25 # <<>>
     /\ CallVector # <<>>) =>
        \A i \in 1..Len(call.ret.value) :
            LET r == call.ret.value[i]
            IN  /\ r.chunk_id \notin Ids(CallBm25) =>
                    r.bm25_rank = 0 /\ ~r.flagged /\ r.disagreement = NoDisagreement
                /\ r.chunk_id \notin Ids(CallVector) =>
                    r.vector_rank = 0 /\ ~r.flagged /\ r.disagreement = NoDisagreement

\* C14: for each retrieval method and each index, a search whose
\* configuration has a category filter returns only results whose stored
\* chunk has one of the filter's categories, and returns no result when
\* the filter matches no stored chunk.
C14_CategoryFilter ==
    (/\ call.fn = "search"
     /\ call.done
     /\ "filters" \in DOMAIN call.arg.config) =>
        LET categories == Range(call.arg.config.filters.category)
        IN  /\ \A i \in 1..Len(call.ret.value) :
                   LET r == call.ret.value[i]
                   IN  /\ r.chunk_id \in DOMAIN chunks
                       /\ chunks[r.chunk_id].metadata_json.category \in categories
            /\ (\A cid \in DOMAIN chunks :
                    chunks[cid].metadata_json.category \notin categories)
                   => ~call.ret.raised /\ call.ret.value = <<>>

\* a keyword search filtered to one category returns results although the
\* unfiltered scorer also finds a chunk of another category
C14_Witness ==
    /\ Searched
    /\ call.arg.config.retrieval.method = "keyword"
    /\ "filters" \in DOMAIN call.arg.config
    /\ call.ret.value # <<>>
    /\ \E cid \in Ids(bm25_search(tokenize(call.arg.query), Store, NoFilter,
                                  call.arg.scan).value) :
           /\ cid \in DOMAIN chunks
           /\ chunks[cid].metadata_json.category
                  \notin Range(call.arg.config.filters.category)

---------------------------------------------------------------------------
(* Claims about the dynamic-k truncator. *)

\* the first max_results items of a list
FirstItems(results, max_results) ==
    SubSeq(results, 1, Max(0, Min(max_results, Len(results))))

\* the sum of the first i consecutive score gaps of a list
GapSum(capped, i) == capped[1][2] - capped[i + 1][2]

\* position i is a cliff: i >= min_results, the mean of the first i gaps
\* is positive and the i-th gap is greater than factor times that mean
Cliff(capped, factor, min_results, i) ==
    /\ i >= min_results
    /\ GapSum(capped, i) > 0
    /\ (capped[i][2] - capped[i + 1][2]) * factor.den * i
           > factor.num * GapSum(capped, i)

\* the prefix the rule of C22 selects from a capped list
CutByRule(capped, factor, min_results) ==
    LET cliffs == {i \in 1..(Len(capped) - 1) :
                      Cliff(capped, factor, min_results, i)}
    IN  IF Len(capped) <= min_results \/ cliffs = {} THEN capped
        ELSE SubSeq(capped, 1, CHOOSE i \in cliffs : \A j \in cliffs : i <= j)

\* C22: for a count max_results >= 0, dynamic-k returns the list capped at
\* max_results when that has at most min_results items, else its first i
\* items for the smallest i >= min_results (1 <= i < capped length) at
\* which the mean of the first i gaps is positive and the i-th gap is
\* strictly greater than gap_threshold_factor times that mean, else the
\* whole capped list.
C22_DynKExactRule ==
    (call.fn = "apply_dynamic_k" /\ call.done /\ call.arg.max_results >= 0)
    => call.ret = CutByRule(FirstItems(call.arg.results, call.arg.max_results),
                            call.arg.gap_threshold_factor, call.arg.min_results)

\* a capped list was cut at a cliff beyond min_results, an earlier
\* position at or after min_results not being one
C22_Witness ==
    /\ call.fn = "apply_dynamic_k"
    /\ call.done
    /\ call.arg.max_results >= 0
    /\ call.arg.max_results < Len(call.arg.results)
    /\ call.arg.min_results >= 1
    /\ Len(call.ret) > call.arg.min_results
    /\ Len(call.ret) < call.arg.max_results

\* the scores of a list do not increase along it
ScoreSorted(results) ==
    \A i \in 1..(Len(results) - 1) : results[i][2] >= results[i + 1][2]

CallDetection == GetOr(call.arg.config, "distraction_detection", EmptyTable)

CallThreshold ==
    GetOr(CallDetection, "disagreement_threshold", [num |-> 7, den |-> 10])

\* |a - b|
AbsDiff(a, b) == IF a >= b THEN a - b ELSE b - a

\* C23: where distraction detection is enabled and the method is hybrid,
\* every result with both ranks nonzero has disagreement =
\* |bm25_rank - vector_rank| / max(bm25_rank, vector_rank) and is flagged
\* exactly when that is strictly greater than the threshold; in every
\* other search, so for the keyword and vector methods, no result is
\* flagged and every disagreement is null.
C23_FlaggerRule ==
    Searched =>
        \A i \in 1..Len(call.ret.value) :
            LET r == call.ret.value[i]
                max_rank == Max(r.bm25_rank, r.vector_rank)
                diff == AbsDiff(r.bm25_rank, r.vector_rank)
            IN  IF /\ GetOr(CallDetection, "enabled", FALSE)
                   /\ call.arg.config.retrieval.method = "hybrid"
                THEN (r.bm25_rank # 0 /\ r.vector_rank # 0) =>
                        /\ r.disagreement # NoDisagreement
                        /\ r.disagreement[1].num * max_rank
                               = diff * r.disagreement[1].den
                        /\ r.flagged <=>
                               diff * CallThreshold.den > CallThreshold.num * max_rank
                ELSE ~r.flagged /\ r.disagreement = NoDisagreement

\* a hybrid search flagged one result and left unflagged another whose
\* disagreement equals the threshold
C23_Witness ==
    /\ Searched
    /\ call.arg.config.retrieval.method = "hybrid"
    /\ \E i, j \in 1..Len(call.ret.value) :
           /\ call.ret.value[i].flagged
           /\ ~call.ret.value[j].flagged
           /\ call.ret.value[j].disagreement # NoDisagreement
           /\ FracEq(call.ret.value[j].disagreement[1], CallThreshold)

\* the stages of the search that call records
CallStages ==
    Stages(call.arg.query, call.arg.config, Store, call.arg.scan,
           call.arg.set_order, call.arg.provider_up)

CallDynamicK == GetOr(call.arg.config, "dynamic_k", EmptyTable)

\* the ids of a list of fused items or of results, in order
CidsOf(fused) == [i \in 1..Len(fused) |-> fused[i].cid]

ChunkIdsOf(results) == [i \in 1..Len(results) |-> results[i].chunk_id]

\* what the order fuse, cap at top_k, dynamic-k leaves of the fused list
CappedThenCut ==
    LET top_k == call.arg.config.retrieval.top_k
        capped == FirstItems(CallStages.fused, top_k)
    IN  IF GetOr(CallDynamicK, "enabled", FALSE)
        THEN SubSeq(capped, 1,
                    Len(CutByRule(
                            FirstItems(Scored(capped),
                                       GetOr(CallDynamicK, "max_results", top_k)),
                            GetOr(CallDynamicK, "gap_threshold_factor",
                                  [num |-> 3, den |-> 1]),
                            GetOr(CallDynamicK, "min_results", 1))))
        ELSE capped

StoredId(cid) == cid \in DOMAIN chunks

\* C24: the stages run in the order fuse, cap at top_k, dynamic-k,
\* hydrate, flag: the results are the stored chunks of the list that
\* dynamic-k leaves of the fused list capped at top_k, with the ranks and
\* scores of fusion, and there are at most top_k of them, at most
\* min(top_k, max_results) when dynamic-k is enabled.
C24_StageOrder ==
    Searched =>
        LET top_k == call.arg.config.retrieval.top_k
            expected == CappedThenCut
            kept == SelectSeq(CidsOf(expected), StoredId)
        IN  /\ Len(call.ret.value) <= top_k
            /\ GetOr(CallDynamicK, "enabled", FALSE) =>
                   Len(call.ret.value)
                       <= Min(top_k, GetOr(CallDynamicK, "max_results", top_k))
            /\ ChunkIdsOf(call.ret.value) = kept
            /\ \A i \in 1..Len(call.ret.value) :
                   \E j \in 1..Len(expected) :
                       /\ expected[j].cid = call.ret.value[i].chunk_id
                       /\ expected[j].score = call.ret.value[i].score
                       /\ expected[j].bm25_rank = call.ret.value[i].bm25_rank
                       /\ expected[j].vector_rank = call.ret.value[i].vector_rank

\* a fused list longer than top_k was capped and then cut by dynamic-k
C24_Witness ==
    /\ Searched
    /\ GetOr(CallDynamicK, "enabled", FALSE)
    /\ Len(CallStages.fused) > call.arg.config.retrieval.top_k
    /\ call.ret.value # <<>>
    /\ Len(call.ret.value) < call.arg.config.retrieval.top_k

\* the results are the first items of a scorer's list, in its order, each
\* with score 1 / (rrf_k + rank) and rank 0 for the other stage; all of
\* the list when top_k does not cap it and dynamic-k is off
DegradedTo(list, stage) ==
    LET rrf_k == GetOr(call.arg.config.retrieval, "rrf_k", 60)
        value == call.ret.value
    IN  /\ Len(value) <= Len(list)
        /\ \A i \in 1..Len(value) :
               /\ value[i].chunk_id = list[i][1]
               /\ FracEq(value[i].score, [num |-> 1, den |-> rrf_k + i])
               /\ value[i].bm25_rank = (IF stage = "bm25" THEN i ELSE 0)
               /\ value[i].vector_rank = (IF stage = "vector" THEN i ELSE 0)
        /\ (/\ Len(list) <= call.arg.config.retrieval.top_k
            /\ ~GetOr(CallDynamicK, "enabled", FALSE)) => Len(value) = Len(list)

\* C25: a hybrid search in which exactly one scorer returned a nonempty
\* list returns that list's ids in that list's order with score
\* 1 / (rrf_k + rank), rank counted from 1, and rank 0 for the other
\* stage; with both lists empty it returns no result; the keyword and
\* vector methods score their one list in the same way.
C25_SingleSource ==
    Searched =>
        LET method == call.arg.config.retrieval.method
            bm25_results == CallBm25
            vector_results == CallVector
        IN  /\ method = "keyword" => DegradedTo(bm25_results, "bm25")
            /\ method = "vector" => DegradedTo(vector_results, "vector")
            /\ (method = "hybrid" /\ bm25_results # <<>> /\ vector_results = <<>>)
                   => DegradedTo(bm25_results, "bm25")
            /\ (method = "hybrid" /\ bm25_results = <<>> /\ vector_results # <<>>)
                   => DegradedTo(vector_results, "vector")
            /\ (method = "hybrid" /\ bm25_results = <<>> /\ vector_results = <<>>)
                   => call.ret.value = <<>>

\* a hybrid search over an index without embeddings returned the two or
\* more chunks the lexical scorer found
C25_Witness ==
    /\ Searched
    /\ call.arg.config.retrieval.method = "hybrid"
    /\ CallVector = <<>>
    /\ Len(CallBm25) >= 2
    /\ Len(call.ret.value) = Len(CallBm25)

\* the search that call records met a stale id: a posting of a query
\* term whose chunk is not stored; the embedding provider did not fail
StaleHit ==
    /\ call.fn = "search"
    /\ call.done
    /\ ~call.ret.provider_error
    /\ call.arg.config.retrieval.method \in {"keyword", "hybrid"}
    /\ \E key \in DOMAIN postings :
           /\ key[1] \in Range(tokenize(call.arg.query))
           /\ key[2] \notin DOMAIN chunks

\* C21: a search that meets a posting or a ranked id whose chunk is no
\* longer stored does not raise; it leaves that id out of the results and
\* returns every other id of the ranking in the order it had.
C21_StaleIdsSkipped ==
    StaleHit =>
        /\ ~call.ret.raised
        /\ ChunkIdsOf(call.ret.value) = SelectSeq(CidsOf(CallStages.cut), StoredId)

\* no stored chunk that the filter of the search allows has an embedding
NoEligibleEmbedding ==
    \A cid \in DOMAIN chunks :
        Allowed(CallAllowed, cid) => chunks[cid].embedding = NoEmbedding

\* C28: when no chunk eligible under allowed_ids has a stored embedding,
\* vector_search returns an empty list and does not call the embedding
\* provider, so a vector or hybrid search over an index without
\* embeddings does not fail when the provider is unavailable, and a hybrid
\* search returns the lexical results.
C28_NoProviderWithoutEmbeddings ==
    (/\ call.fn = "search"
     /\ call.done
     /\ call.arg.config.retrieval.method \in {"vector", "hybrid"}
     /\ NoEligibleEmbedding) =>
        /\ ~call.ret.provider_error
        /\ CallStages.provider_calls = 0
        /\ CallStages.vector_results = <<>>
        /\ call.arg.config.retrieval.method = "vector" => call.ret.value = <<>>
        /\ (call.arg.config.retrieval.method = "hybrid" /\ ~call.ret.raised)
               => DegradedTo(CallBm25, "bm25")

\* a hybrid search with the provider unavailable, over an index built
\* without embeddings, returned the lexical results
C28_Witness ==
    /\ Searched
    /\ call.arg.config.retrieval.method = "hybrid"
    /\ ~call.arg.provider_up
    /\ chunks # EmptyTable
    /\ NoEligibleEmbedding
    /\ call.ret.value # <<>>
    /\ Len(call.ret.value) = Len(CallBm25)


(***************************************************************************)
(* Claims about the determinism of fusion.                                 *)
(***************************************************************************)

\* the set of ids rrf_fuse iterates over
FusedIdSet ==
    DOMAIN RankMap(call.arg.bm25_results) \cup DOMAIN RankMap(call.arg.vector_results)

\* the top_k values that distinguish results of at most three ids
TopKs == 0..Cardinality(ChunkIds)

\* C29: for fixed lexical and vector ranked lists, rrf_k and top_k, the ids
\* returned by fusion followed by the top_k cap, and their order, are the
\* same for every iteration order of the id union, also when several ids
\* have equal fused scores.
C29_FusionDeterministic ==
    (call.fn = "rrf_fuse" /\ call.done) =>
        \A all_ids \in IterationOrders(FusedIdSet) : \A top_k \in TopKs :
            CidsOf(Slice(rrf_fuse(call.arg.bm25_results, call.arg.vector_results,
                                  call.arg.rrf_k, all_ids), top_k))
                = CidsOf(Slice(call.ret, top_k))

(***************************************************************************)
(* Claims about the index run with an embeddings cache.                    *)
(***************************************************************************)

\* the chunks of the completed run, in corpus order
RunChunks == IndexPlanOf[call.arg.col].all_chunks

\* the vectors the file read by the run holds for the id cid
CachedFor(cid) ==
    IF call.arg.file = NoCacheFile THEN {}
    ELSE LET f == call.arg.file[1]
         IN  {f.embeddings[j] : j \in {q \in 1..Len(f.chunk_ids) : f.chunk_ids[q] = cid}}

\* position i of the completed run was a cache hit
Hit(i) == CachedFor(RunChunks[i].id) # {}

\* the vector v is what the run owes position i: a cached vector of the
\* chunk's id on a hit, the vector generated for the chunk's text on a miss
Owed(i, v) ==
    IF Hit(i) THEN v \in CachedFor(RunChunks[i].id)
    ELSE v = generate_embeddings(<<RunChunks[i].text>>)[1]

\* C26: after an index run with an embeddings cache, the embedding at
\* position i of the corpus (in the array the run saves, and in the row the
\* store keeps for the chunk) is the cached vector of the chunk's id when
\* the cache has it and otherwise the vector generated for the chunk's own
\* text, for every pattern of hits and misses.
C26_CacheMergeInOrder ==
    (call.fn = "index_collection" /\ call.done /\ call.arg.col.docs # <<>>) =>
        /\ Len(call.ret[1].embeddings) = Len(RunChunks)
        /\ \A i \in 1..Len(RunChunks) :
              /\ call.ret[1].chunk_ids[i] = RunChunks[i].id
              /\ Owed(i, call.ret[1].embeddings[i])
              /\ (\A q \in (i + 1)..Len(RunChunks) : RunChunks[q].id # RunChunks[i].id)
                    => chunks[RunChunks[i].id].embedding = call.ret[1].embeddings[i]

\* a run over three chunks hit the cache at the first and generated two
\* different vectors for the other two; the cached vector is not the one the
\* provider gives for the chunk's present text
C26_Witness ==
    /\ call.fn = "index_collection" /\ call.done /\ call.arg.col.docs # <<>>
    /\ Len(RunChunks) = 3
    /\ Hit(1) /\ ~Hit(2) /\ ~Hit(3)
    /\ call.ret[1].embeddings[2] # call.ret[1].embeddings[3]
    /\ call.ret[1].embeddings[1] # generate_embeddings(<<RunChunks[1].text>>)[1]
===========================================================================
